---- MODULE Spec2Model ----
(***************************************************************************)
(* Model of pg-backup-scheduler's backup orchestration engine:             *)
(*   internal/service  (Service.RunBackupJob, Service.RunBackupForProject) *)
(*   internal/metadata (running.json and latest.json)                      *)
(*   internal/backup   (BackupRunner.CreateBackup)                         *)
(*   internal/retention (CleanupOldBackups, CleanupAllDatabases)           *)
(*   internal/docker   (RunOnceWithConfig)                                 *)
(*   internal/api      (Server.handleRun, Server.handleStatus)             *)
(*   cmd               (main: signal, shutdown, exit)                      *)
(*                                                                         *)
(* The specifications share the variables:                                 *)
(*   Spec          the service: goroutines running RunBackupJob and        *)
(*                 RunBackupForProject against one backup root             *)
(*   SpecPipeline  one CreateBackup call, phase by phase                   *)
(*   SpecStore     successive WriteLastRun calls of one writer             *)
(*   SpecRetention the retention sweeps over a tree of dated directories   *)
(*   SpecDocker    one docker.RunOnceWithConfig call, statement by         *)
(*                 statement, under a context that can be cancelled        *)
(*   SpecLife      the process from start to exit: the scheduler and       *)
(*                 POST /run trigger bulk jobs, a signal makes main shut   *)
(*                 down the HTTP server and the service (with fairness)    *)
(*   SpecProject   targeted backups on their own (with fairness)           *)
(*   SpecMidnight  bulk jobs of one goroutine while the days pass          *)
(*                                                                         *)
(* Fault model.  Outcomes of the environment are inputs of the actions:    *)
(* database connections and dump containers succeed or fail, mkdir and     *)
(* rename succeed or fail, the process can be killed and restarted, and a  *)
(* file written with os.WriteFile is empty between its truncation and its  *)
(* write ("partial" stands for any content that is not valid JSON).  A write of running.json or latest.json that has been started is *)
(* taken to reach the disk, and removing a staging directory succeeds.     *)
(* Run identifiers are taken to be distinct for distinct invocations.      *)
(* Spec runs the default configuration of RETENTION_DAYS and holds the     *)
(* clock still: dates matter to the retention sweep, which is a matter of  *)
(* one invocation, not of two.                                             *)
(***************************************************************************)
EXTENDS Integers, Sequences, FiniteSets, TLC

\* ------------------------------------------------------------------ bounds
\* Most database targets a configuration holds (identifiers 1..MaxTargets).
MaxTargets == 2
\* Most invocations started over one behaviour.
MaxStarts == 2
\* Most failures the environment injects over one behaviour of the service
\* (a failed connection, container, mkdir, rename or removal, a kill).
MaxFaults == 1
\* Most records written to latest.json over one behaviour of SpecStore.
MaxWrites == 3
\* Last calendar day of SpecRetention (days 0..MaxDay).
MaxDay == 3
\* Largest RETENTION_DAYS of SpecRetention.
MaxRetention == 2

\* detectVersion's fallback major version, backup.go "defaulting to 17".
DefaultPGVersion == 17
\* RETENTION_DAYS when the environment does not set it, config.go line 40.
DefaultRetentionDays == 30

\* The two goroutines that may run an invocation at the same time.
Procs == {1, 2}

VARIABLES
    config,         \* Config.Databases: the descriptor of every configured target
    databases,      \* Service.databases: the targets service.New kept, in list order
    retentionDays,  \* Config.RetentionDays
    today,          \* the calendar day time.Now() falls on
    runningFile,    \* metadata/running.json: "absent", "partial", "true", "false"
    latestFile,     \* metadata/latest.json: "absent", "partial" or a Run Summary
    tmpBase,        \* whether <root>/.tmp exists
    staging,        \* the staging directories under <root>/.tmp
    trees,          \* the databases whose backup tree <root>/<db> exists
    dirs,           \* dirs[db]: the dated directories of <root>/<db>
    strays,         \* the databases whose tree holds an entry that is no directory
    files,          \* the files inside the dated directories
    inv,            \* inv[p]: the invocation goroutine p is running
    nextId,         \* invocations started so far
    faults,         \* failures the environment has injected so far
    pipe,           \* SpecPipeline: the CreateBackup call in progress
    penv,           \* SpecPipeline: what the environment does to that call
    store,          \* SpecStore: the WriteLastRun call in progress, and those done
    sweep,          \* SpecRetention: the sweep that has just returned
    docker,         \* SpecDocker: the RunOnceWithConfig call in progress
    life            \* SpecLife: the process from its start to its exit

vars == <<config, databases, retentionDays, today, runningFile, latestFile, tmpBase,
          staging, trees, dirs, strays, files, inv, nextId, faults, pipe, penv,
          store, sweep, docker, life>>

\* What no step of the service changes: the configuration, the entries of a
\* backup tree that are no directories, and the variables of SpecPipeline,
\* SpecStore, SpecRetention, SpecDocker and SpecLife.
fixedVars == <<config, databases, retentionDays, strays, pipe, penv, store, sweep, docker,
               life>>

\* ------------------------------------------------------- CreateBackup
\* The steps of CreateBackup at which the environment can fail the call.
FailPoints == {"none", "mkdir", "roles", "schema", "data",
               "archive_create", "archive_write", "stat", "save"}

\* What the environment does to one CreateBackup call: the major version the
\* server reports (0: detection fails; else one that is not the fallback),
\* whether collectMetrics succeeds, and the first step that fails.
PipeEnvs == [detect : {0, DefaultPGVersion - 1}, metrics : BOOLEAN, failAt : FailPoints]

NoManifest == [status |-> "none", files |-> <<>>, error |-> "", hasMetrics |-> FALSE]

\* A CreateBackup call before its first statement.
PipeStart == [pc |-> "detect", pgVersion |-> 0, metrics |-> "unset",
              sqlFiles |-> <<>>, log |-> <<>>, out |-> {},
              manifest |-> NoManifest, err |-> ""]

PipeIdle == [PipeStart EXCEPT !.pc = "idle"]

\* createFailedManifest: status failed, the error, no file list.
createFailedManifest(s, msg) ==
    [s EXCEPT !.pc = "returned",
              !.manifest = [status |-> "failed", files |-> <<>>, error |-> msg,
                            hasMetrics |-> FALSE]]

\* A variant of DetectVersion without the fallback.
DetectVersion_NoFallback(s, e) ==
    [s EXCEPT !.pc = "metrics", !.pgVersion = e.detect]

\* detectVersion and the fallback of CreateBackup.
DetectVersion(s, e) ==
    [s EXCEPT !.pc = "metrics",
              !.pgVersion = IF e.detect = 0 THEN DefaultPGVersion ELSE e.detect]

\* collectMetrics: on error the metrics pointer stays nil.
CollectMetrics(s, e) ==
    [s EXCEPT !.pc = "mkdir", !.metrics = IF e.metrics THEN "ok" ELSE "nil"]

\* os.MkdirAll(tempDir): the work directory <outputDir>/<runID>.
MkWorkDir(s, e) ==
    IF e.failAt = "mkdir"
    THEN [s EXCEPT !.pc = "returned", !.err = "failed to create temp directory"]
    ELSE [s EXCEPT !.pc = "roles", !.out = @ \cup {"workdir"}]

\* One dump phase: the container runs with image postgres:<pgVersion>; on
\* success the SQL file is written, on failure the failed manifest is returned.
DumpPhase(s, e, phase, next) ==
    LET ran == [s EXCEPT !.log = Append(@, [phase |-> phase, version |-> s.pgVersion])]
    IN  IF e.failAt = phase
        THEN createFailedManifest(ran, phase \o " dump failed")
        ELSE [ran EXCEPT !.pc = next, !.sqlFiles = Append(@, phase \o ".sql")]

DumpRoles(s, e) == DumpPhase(s, e, "roles", "schema")

DumpSchema(s, e) == DumpPhase(s, e, "schema", "data")

DumpData(s, e) == DumpPhase(s, e, "data", "archive")

\* createArchive and the os.Stat of the archive.  A failure of os.Create
\* leaves no file; a failure while writing leaves a partial archive.
CreateArchive(s, e) ==
    LET ran == [s EXCEPT !.log = Append(@, [phase |-> "archive", version |-> s.pgVersion])]
    IN  CASE e.failAt = "archive_create" ->
                createFailedManifest(ran, "archive creation failed")
          [] e.failAt = "archive_write" ->
                createFailedManifest([ran EXCEPT !.out = @ \cup {"archive_partial"}],
                                     "archive creation failed")
          [] e.failAt = "stat" ->
                createFailedManifest([ran EXCEPT !.out = @ \cup {"archive"}],
                                     "failed to stat archive")
          [] OTHER -> [ran EXCEPT !.pc = "manifest", !.out = @ \cup {"archive"}]

\* A variant of BuildManifest whose success manifest lists no file.
BuildManifest_NoFiles(s, e) ==
    IF s.metrics = "nil"
    THEN [s EXCEPT !.pc = "panic"]
    ELSE [s EXCEPT !.pc = "save",
                   !.manifest = [status |-> "success", files |-> <<>>,
                                 error |-> "", hasMetrics |-> TRUE]]

\* The success manifest; reading metrics.PGVersion through a nil pointer panics.
BuildManifest(s, e) ==
    IF s.metrics = "nil"
    THEN [s EXCEPT !.pc = "panic"]
    ELSE [s EXCEPT !.pc = "save",
                   !.manifest = [status |-> "success", files |-> <<"archive">>,
                                 error |-> "", hasMetrics |-> TRUE]]

\* saveManifest (a failure is only logged), the removal of the work directory
\* and the return of the manifest.
SaveManifest(s, e) ==
    LET ran == [s EXCEPT !.log = Append(@, [phase |-> "manifest", version |-> s.pgVersion])]
    IN  [ran EXCEPT !.pc = "returned",
                    !.out = (IF e.failAt = "save" THEN @ ELSE @ \cup {"manifest"})
                            \ {"workdir"}]

\* One statement of CreateBackup, in the order of the code.
PipeStep(s, e) ==
    CASE s.pc = "detect"   -> DetectVersion(s, e)
      [] s.pc = "metrics"  -> CollectMetrics(s, e)
      [] s.pc = "mkdir"    -> MkWorkDir(s, e)
      [] s.pc = "roles"    -> DumpRoles(s, e)
      [] s.pc = "schema"   -> DumpSchema(s, e)
      [] s.pc = "data"     -> DumpData(s, e)
      [] s.pc = "archive"  -> CreateArchive(s, e)
      [] s.pc = "manifest" -> BuildManifest(s, e)
      [] s.pc = "save"     -> SaveManifest(s, e)
      [] OTHER             -> s

PipeDone(s) == s.pc \in {"returned", "panic", "idle"}

RECURSIVE PipeRun(_, _)
PipeRun(s, e) == IF PipeDone(s) THEN s ELSE PipeRun(PipeStep(s, e), e)

\* CreateBackup as one call: the state it ends in under environment e.
CreateBackup(e) == PipeRun(PipeStart, e)

\* ------------------------------------------------- RunOnceWithConfig
NoError == [kind |-> "none", code |-> 0, text |-> ""]

\* What the container does in one RunOnceWithConfig call: the exit code of
\* its command and what the command writes to stdout and to stderr.
DockerEnvs == [exit : {0, 1}, out : {"", "out"}, err : {"", "err"}]

\* A RunOnceWithConfig call before its first statement; container is the
\* state of the container the call creates, ctxDone whether the caller's
\* context has been cancelled or has timed out.
DockerStart(e) ==
    [pc |-> "pull", env |-> e, container |-> "none", ctxDone |-> FALSE,
     exitCode |-> 0, stdout |-> "", stderr |-> "", error |-> NoError]

DockerIdle == [DockerStart([exit |-> 0, out |-> "", err |-> ""]) EXCEPT !.pc = "idle"]

\* A variant of ExitError that reports stdout before stderr.
ExitError_PrefersStdout(exitCode, stdoutStr, stderrStr) ==
    IF exitCode = 0 THEN NoError
    ELSE [kind |-> "exit", code |-> exitCode,
          text |-> IF stdoutStr # "" THEN stdoutStr ELSE stderrStr]

\* RunOnceWithConfig lines 208-221: the error of a non-zero exit code carries
\* the code and stderr, or stdout when stderr is empty, or nothing more.
ExitError(exitCode, stdoutStr, stderrStr) ==
    IF exitCode = 0 THEN NoError
    ELSE [kind |-> "exit", code |-> exitCode,
          text |-> IF stderrStr # "" THEN stderrStr ELSE stdoutStr]

\* ------------------------------------------------------------ retention
\* The members of a set of days in ascending order: os.ReadDir returns the
\* entries sorted by name, and the names are zero-padded ISO dates.
RECURSIVE SortedDays(_)
SortedDays(S) ==
    IF S = {} THEN <<>>
    ELSE LET m == CHOOSE x \in S : \A y \in S : x <= y
         IN  <<m>> \o SortedDays(S \ {m})

\* A variant of SweepEntries that also removes the directory of the cutoff day.
RECURSIVE SweepEntries_Inclusive(_, _, _, _)
SweepEntries_Inclusive(entries, cutoff, bad, acc) ==
    IF entries = <<>> THEN acc
    ELSE LET d == Head(entries)
         IN  IF d <= cutoff
             THEN IF d \in bad
                  THEN [acc EXCEPT !.err = TRUE]
                  ELSE SweepEntries_Inclusive(Tail(entries), cutoff, bad,
                                              [acc EXCEPT !.deleted = @ + 1,
                                                          !.removed = @ \cup {d}])
             ELSE SweepEntries_Inclusive(Tail(entries), cutoff, bad, acc)

\* A variant of SweepEntries that goes on after a removal that failed.
RECURSIVE SweepEntries_SkipsFailure(_, _, _, _)
SweepEntries_SkipsFailure(entries, cutoff, bad, acc) ==
    IF entries = <<>> THEN acc
    ELSE LET d == Head(entries)
         IN  IF d < cutoff
             THEN IF d \in bad
                  THEN SweepEntries_SkipsFailure(Tail(entries), cutoff, bad,
                                                 [acc EXCEPT !.err = TRUE])
                  ELSE SweepEntries_SkipsFailure(Tail(entries), cutoff, bad,
                                                 [acc EXCEPT !.deleted = @ + 1,
                                                             !.removed = @ \cup {d}])
             ELSE SweepEntries_SkipsFailure(Tail(entries), cutoff, bad, acc)

\* The loop of CleanupOldBackups over the entries that are left: every entry
\* before the cutoff is removed, and a removal that fails ends the loop.
RECURSIVE SweepEntries(_, _, _, _)
SweepEntries(entries, cutoff, bad, acc) ==
    IF entries = <<>> THEN acc
    ELSE LET d == Head(entries)
         IN  IF d < cutoff
             THEN IF d \in bad
                  THEN [acc EXCEPT !.err = TRUE]
                  ELSE SweepEntries(Tail(entries), cutoff, bad,
                                    [acc EXCEPT !.deleted = @ + 1,
                                                !.removed = @ \cup {d}])
             ELSE SweepEntries(Tail(entries), cutoff, bad, acc)

\* CleanupOldBackups for one database whose dated directories are ds, on day
\* now; bad are the directories whose removal fails.
CleanupOldBackups(ds, now, retention, bad) ==
    SweepEntries(SortedDays(ds), now - retention, bad,
                 [deleted |-> 0, removed |-> {}, err |-> FALSE])

\* The name of an entry that is no dated directory and sorts before every
\* date (a file such as ".DS_Store": "." sorts before every digit).
StrayName == 0 - 1

\* A variant of DatedDirs that takes every entry for a directory.
DatedDirs_AnyEntry(entries) == {e.name : e \in entries}

\* CleanupOldBackups lines 26-28: the entries that are directories.
DatedDirs(entries) == {e.name : e \in {x \in entries : x.isDir}}

\* A variant of CleanupOldBackupsOf without the os.Stat of lines 12-14: the
\* os.ReadDir of a tree that does not exist is an error.
CleanupOldBackupsOf_NoStat(tree, now, retention, bad) ==
    IF ~tree.exists
    THEN [deleted |-> 0, removed |-> {}, err |-> TRUE]
    ELSE CleanupOldBackups(DatedDirs(tree.entries), now, retention, bad)

\* CleanupOldBackups for one database with its os.Stat (lines 12-14): a tree
\* that does not exist gives zero and no error; else the entries are listed.
CleanupOldBackupsOf(tree, now, retention, bad) ==
    IF ~tree.exists
    THEN [deleted |-> 0, removed |-> {}, err |-> FALSE]
    ELSE CleanupOldBackups(DatedDirs(tree.entries), now, retention, bad)

\* CleanupAllDatabases over the identifiers that are left: the first sweep that
\* returns an error ends the loop; a count is recorded only when it is > 0.
\* dd[db] is the backup tree of db.
RECURSIVE CleanupAllDatabases(_, _, _, _, _, _)
CleanupAllDatabases(dbIDs, dd, now, retention, bad, acc) ==
    IF dbIDs = <<>> THEN acc
    ELSE LET db == Head(dbIDs)
             r  == CleanupOldBackupsOf(dd[db], now, retention, bad[db])
             a1 == [acc EXCEPT !.removed[db] = r.removed,
                               !.swept = Append(@, db)]
         IN  IF r.err
             THEN [a1 EXCEPT !.err = TRUE]
             ELSE CleanupAllDatabases(Tail(dbIDs), dd, now, retention, bad,
                      [a1 EXCEPT !.counts = IF r.deleted > 0
                                            THEN @ \cup {<<db, r.deleted>>}
                                            ELSE @])

NoCleanup == [removed |-> [db \in 1..MaxTargets |-> {}], swept |-> <<>>,
              counts |-> {}, err |-> FALSE]

\* No sweep has just returned.
NoSweep == [kind |-> "none", db |-> 0, before |-> [db \in 1..MaxTargets |-> {}],
            deleted |-> 0, err |-> FALSE, removed |-> [db \in 1..MaxTargets |-> {}],
            swept |-> <<>>, counts |-> {}, bad |-> {}]

\* ------------------------------------------------------------- metadata
\* ReadServiceStatus: a missing file reads as not running; a file that is not
\* valid JSON (empty, between truncation and write) is an error with a nil status.
ReadServiceStatus ==
    CASE runningFile = "absent"  -> "false"
      [] runningFile = "partial" -> "err"
      [] OTHER                   -> runningFile

NoSummary == [run_id |-> 0, status |-> "none", error |-> "", counted |-> FALSE,
              total |-> 0, succeeded |-> 0, failed |-> 0, backups |-> <<>>,
              cleanup |-> {}]

LatestAbsent == [state |-> "absent", summary |-> NoSummary]

\* ReadLastRun: the record, nothing when the file is missing, an error when
\* the file is not valid JSON.
ReadLastRun == latestFile

\* GetRunning: the lock state, or the error of ReadServiceStatus.
GetRunning == ReadServiceStatus

\* handleStatus, GET /status: an error of GetRunning is answered with 500
\* before the last run is looked at; an error of GetLastRun is only logged,
\* and without a last run the answer carries status no_runs_yet.
HandleStatus ==
    IF GetRunning = "err"
    THEN [code |-> 500, status |-> "", running |-> "", last_run |-> NoSummary]
    ELSE [code |-> 200,
          status |-> IF ReadLastRun.state = "ok" THEN "" ELSE "no_runs_yet",
          running |-> GetRunning,
          last_run |-> ReadLastRun.summary]

\* os.WriteFile on running.json, the write after the truncating open: the
\* bytes go over whatever the file holds by then.  "running": true is one byte
\* shorter than "running": false, so written over a false that another writer
\* has put there since the truncation it leaves a trailing brace behind.
WriteRunning(cur, new) ==
    IF cur = "false" /\ new = "true" THEN "partial" ELSE new

\* A variant of TruncLastRun that opens latest.json without truncating it.
TruncLastRun_Keeps(cur) == cur

\* os.WriteFile on latest.json, the truncating open.
TruncLastRun(cur) == [state |-> "partial", summary |-> NoSummary]

\* os.WriteFile on latest.json, the write after the truncating open: the bytes
\* go over whatever the file holds by then; over another record they leave
\* valid JSON only if they fit (are at least as long as that record).
WriteLastRun(cur, data, fits) ==
    IF cur.state = "ok" /\ cur.summary # data /\ ~fits
    THEN [state |-> "partial", summary |-> NoSummary]
    ELSE [state |-> "ok", summary |-> data]

\* Whether record data, written over record cur, can be the shorter one: the
\* summaries of two runs without configured targets have the same length
\* (fixed-width run_id and times, duration_ms 0, the same error); any other
\* two records can differ in length.
CanFit(cur, data) ==
    IF ~cur.counted /\ ~data.counted
         /\ cur.error = "No databases configured" /\ data.error = cur.error
    THEN {TRUE}
    ELSE BOOLEAN

\* No WriteLastRun call in progress, none done.
StoreIdle == [pc |-> "idle", data |-> NoSummary, written |-> <<>>]

\* -------------------------------------------------------------- service
\* service.New lines 46-55 over the configured targets from the i-th on: a
\* descriptor that url.Parse rejects is logged and the target is left out.
RECURSIVE NewFrom(_, _)
NewFrom(cfg, i) ==
    IF i > Len(cfg) THEN <<>>
    ELSE (IF cfg[i] = "valid" THEN <<i>> ELSE <<>>) \o NewFrom(cfg, i + 1)

\* Service.databases as service.New builds it from the configuration (the
\* identifier of a target is its place in the configuration).
New(cfg) == NewFrom(cfg, 1)

NoResult == [status |-> "none", error |-> ""]

\* The process as main starts it: main waits for a signal (part_003 line 52),
\* the scheduler and the HTTP server run, nothing was triggered or answered,
\* Service.Shutdown was not called.  hangs: the database of a dump never
\* answers; deadline: the context given to Service.Shutdown can expire.
LifeIdle == [main |-> "waiting", cron |-> "started", api |-> "serving",
             cronJobs |-> {}, accepted |-> {}, answer |-> "none",
             shutdown |-> "none", ctxDone |-> FALSE,
             hangs |-> FALSE, deadline |-> FALSE]

IdleInv == [kind |-> "none", pc |-> "idle", id |-> 0, db |-> 0, idx |-> 0,
            date |-> 0, succeeded |-> 0, failed |-> 0, backups |-> <<>>,
            attempted |-> <<>>, m |-> NoManifest, summary |-> NoSummary,
            result |-> NoResult, panicking |-> FALSE]

Running(p) == inv[p].pc \notin {"idle", "returned"}

\* The statements of RunBackupJob after the lock check (lines 134-298).
JobPastLock(p) ==
    inv[p].kind = "job" /\
    inv[p].pc \in {"j_lock_trunc", "j_lock_write", "j_begin", "j_mktemp",
                   "j_backup", "j_mkfinal", "j_mv_archive", "j_mv_manifest",
                   "j_record", "j_retention", "j_sum_trunc", "j_sum_write",
                   "j_unlock_trunc", "j_unlock_write"}

\* Per-database work and the retention sweep of RunBackupJob (lines 180-266).
JobWorking(p) ==
    inv[p].kind = "job" /\
    inv[p].pc \in {"j_mktemp", "j_backup", "j_mkfinal", "j_mv_archive",
                   "j_mv_manifest", "j_record", "j_retention"}

\* Staging, dump and promotion steps of RunBackupForProject (lines 342-391).
ProjectWorking(p) ==
    inv[p].kind = "project" /\
    inv[p].pc \in {"p_mktemp", "p_backup", "p_mkfinal", "p_mv_archive",
                   "p_mv_manifest", "p_cleanup"}

\* The environment injects k failures in this step, within its budget.
Inject(k) == faults + k <= MaxFaults /\ faults' = faults + k

\* The failures an environment of CreateBackup holds that count against the
\* budget (a failed version detection only changes the image version).
EnvFaults(e) ==
    (IF e.metrics THEN 0 ELSE 1) + (IF e.failAt = "none" THEN 0 ELSE 1)

Init ==
    /\ \E n \in 0..MaxTargets : config \in [1..n -> {"valid", "malformed"}]
    /\ databases = New(config)
    /\ retentionDays = DefaultRetentionDays
    /\ today = 0
    /\ runningFile = "absent"
    /\ latestFile = LatestAbsent
    /\ tmpBase = FALSE
    /\ staging = {}
    /\ trees = {}
    /\ dirs = [db \in 1..MaxTargets |-> {}]
    /\ strays = {}
    /\ files = {}
    /\ inv = [p \in Procs |-> IdleInv]
    /\ nextId = 0
    /\ faults = 0
    /\ pipe = PipeIdle
    /\ penv = [detect |-> 0, metrics |-> FALSE, failAt |-> "none"]
    /\ store = StoreIdle
    /\ sweep = NoSweep
    /\ docker = DockerIdle
    /\ life = LifeIdle

\* The goroutine a new invocation runs on: goroutines are interchangeable, so
\* the first one that runs nothing; what its last invocation returned goes.
Free(p) == ~Running(p) /\ \A q \in Procs : q < p => Running(q)

\* A trigger (the cron entry or POST /run) calls RunBackupJob on a goroutine.
StartJob(p) ==
    /\ Free(p)
    /\ nextId < MaxStarts
    /\ nextId' = nextId + 1
    /\ inv' = [inv EXCEPT ![p] = [IdleInv EXCEPT !.kind = "job", !.pc = "j_read",
                                                 !.id = nextId + 1]]
    /\ UNCHANGED <<fixedVars, today, runningFile, latestFile, tmpBase, staging,
                   trees, dirs, files, faults>>

\* A variant of JobAfterRead that goes on when the lock is held.
JobAfterRead_IgnoresLock(r, st) ==
    CASE st = "err" -> [r EXCEPT !.pc = "crashing"]
      [] OTHER      -> [r EXCEPT !.pc = "j_lock_trunc"]

\* What RunBackupJob lines 121-132 make of the lock state read: a nil status
\* panics on status.Running; a held lock returns already_running; else go on.
JobAfterRead(r, st) ==
    CASE st = "err"  -> [r EXCEPT !.pc = "crashing"]
      [] st = "true" -> [r EXCEPT !.pc = "returned",
                                  !.result = [status |-> "failed",
                                              error |-> "already_running"]]
      [] OTHER       -> [r EXCEPT !.pc = "j_lock_trunc"]

\* RunBackupJob lines 121-132.
JobReadStatus(p) ==
    /\ inv[p].kind = "job" /\ inv[p].pc = "j_read"
    /\ inv' = [inv EXCEPT ![p] = JobAfterRead(@, ReadServiceStatus)]
    /\ UNCHANGED <<fixedVars, today, runningFile, latestFile, tmpBase, staging,
                   trees, dirs, files, nextId, faults>>

\* WriteServiceStatus, first half: os.WriteFile opens running.json truncating it.
TruncRunning(p, from, to) ==
    /\ inv[p].pc = from
    /\ runningFile' = "partial"
    /\ inv' = [inv EXCEPT ![p].pc = to]
    /\ UNCHANGED <<fixedVars, today, latestFile, tmpBase, staging, trees, dirs, files,
                   nextId, faults>>

\* RunBackupJob line 138: WriteServiceStatus(Running: true), the truncation.
JobLockTrunc(p) == inv[p].kind = "job" /\ TruncRunning(p, "j_lock_trunc", "j_lock_write")

\* RunBackupJob line 138: WriteServiceStatus(Running: true), the write.
JobLockWrite(p) ==
    /\ inv[p].kind = "job" /\ inv[p].pc = "j_lock_write"
    /\ runningFile' = WriteRunning(runningFile, "true")
    /\ inv' = [inv EXCEPT ![p].pc = "j_begin"]
    /\ UNCHANGED <<fixedVars, today, latestFile, tmpBase, staging, trees, dirs, files,
                   nextId, faults>>

\* A variant of EarlySummary that leaves the error out.
EarlySummary_NoError(r, msg) ==
    [NoSummary EXCEPT !.run_id = r.id, !.status = "failed"]

\* The Run Summary of an exit before the per-database loop (lines 148-177):
\* status failed, the error, an empty backups list and no counts.
EarlySummary(r, msg) ==
    [NoSummary EXCEPT !.run_id = r.id, !.status = "failed", !.error = msg]

\* A variant of OverallStatus that knows no partial outcome.
OverallStatus_NoPartial(succeeded, failed) ==
    IF failed = 0 THEN "success" ELSE "failed"

\* RunBackupJob lines 271-276: the overall status from the two counters.
OverallStatus(succeeded, failed) ==
    IF failed = 0 THEN "success"
    ELSE IF succeeded > 0 THEN "partial"
    ELSE "failed"

\* The Run Summary after the loop and the sweep (lines 268-285).
FinalSummary(r, cleanup) ==
    [run_id |-> r.id, status |-> OverallStatus(r.succeeded, r.failed),
     error |-> "", counted |-> TRUE, total |-> Len(databases),
     succeeded |-> r.succeeded, failed |-> r.failed, backups |-> r.backups,
     cleanup |-> cleanup]

\* The loop header of line 180: the next target, or on to the sweep.
NextTarget(r) ==
    IF r.idx < Len(databases)
    THEN [r EXCEPT !.idx = @ + 1, !.db = databases[r.idx + 1], !.m = NoManifest,
                   !.pc = "j_mktemp"]
    ELSE [r EXCEPT !.pc = "j_retention", !.m = NoManifest]

\* The staging directory of invocation r's current target.
StagingOf(r) == {d \in staging : d.id = r.id /\ d.db = r.db}

\* RunBackupJob lines 146-178: no databases configured, or the staging root.
JobBegin(p) ==
    /\ inv[p].kind = "job" /\ inv[p].pc = "j_begin"
    /\ \/ /\ Len(databases) = 0
          /\ inv' = [inv EXCEPT ![p].pc = "j_sum_trunc",
                        ![p].summary = EarlySummary(inv[p], "No databases configured")]
          /\ UNCHANGED <<tmpBase, faults>>
       \/ /\ Len(databases) > 0
          /\ ~tmpBase
          /\ Inject(1)
          /\ inv' = [inv EXCEPT ![p].pc = "j_sum_trunc", ![p].date = today,
                        ![p].summary = EarlySummary(inv[p],
                                           "failed to create temp base directory")]
          /\ UNCHANGED tmpBase
       \/ /\ Len(databases) > 0
          /\ tmpBase' = TRUE
          /\ inv' = [inv EXCEPT ![p] = NextTarget([@ EXCEPT !.date = today])]
          /\ UNCHANGED faults
    /\ UNCHANGED <<fixedVars, today, runningFile, latestFile, staging, trees, dirs,
                   files, nextId>>

\* A result entry of a target that failed before it had a manifest.
FailedEntry(r, msg) == [db |-> r.db, status |-> "failed", error |-> msg]

\* RunBackupJob lines 181-193: os.MkdirTemp for the target.
JobMkdirTemp(p) ==
    /\ inv[p].kind = "job" /\ inv[p].pc = "j_mktemp"
    /\ LET r == [inv[p] EXCEPT !.attempted = Append(@, inv[p].db)]
       IN  \/ /\ staging' = staging \cup {[id |-> r.id, db |-> r.db, out |-> {}]}
              /\ inv' = [inv EXCEPT ![p] = [r EXCEPT !.pc = "j_backup"]]
              /\ UNCHANGED faults
           \/ /\ Inject(1)
              /\ inv' = [inv EXCEPT ![p] = NextTarget(
                            [r EXCEPT !.failed = @ + 1,
                                      !.backups = Append(@, FailedEntry(r, "mkdtemp"))])]
              /\ UNCHANGED staging
    /\ UNCHANGED <<fixedVars, today, runningFile, latestFile, tmpBase, trees, dirs,
                   files, nextId>>

\* A variant of JobAfterBackup that promotes whatever the manifest says.
JobAfterBackup_PromotesAlways(r, res) ==
    CASE res.pc = "panic" -> [r EXCEPT !.pc = "j_unlock_trunc", !.panicking = TRUE]
      [] res.err # "" ->
            NextTarget([r EXCEPT !.failed = @ + 1,
                                 !.backups = Append(@, FailedEntry(r, res.err))])
      [] OTHER -> [r EXCEPT !.m = res.manifest, !.pc = "j_mkfinal"]

\* What RunBackupJob lines 195-208 make of CreateBackup's outcome res: a panic
\* unwinds into the deferred unlock; an error counts the target failed and
\* removes the staging directory; a success manifest with files is promoted;
\* any other manifest goes to the result entry.
JobAfterBackup(r, res) ==
    CASE res.pc = "panic" -> [r EXCEPT !.pc = "j_unlock_trunc", !.panicking = TRUE]
      [] res.err # "" ->
            NextTarget([r EXCEPT !.failed = @ + 1,
                                 !.backups = Append(@, FailedEntry(r, res.err))])
      [] OTHER ->
            [r EXCEPT !.m = res.manifest,
                      !.pc = IF res.manifest.status = "success"
                                /\ Len(res.manifest.files) > 0
                             THEN "j_mkfinal" ELSE "j_record"]

\* RunBackupJob lines 195-208: the call of CreateBackup.
JobCreateBackup(p) ==
    /\ inv[p].kind = "job" /\ inv[p].pc = "j_backup"
    /\ \E e \in PipeEnvs :
         LET r   == inv[p]
             res == CreateBackup(e)
         IN  /\ Inject(EnvFaults(e))
             /\ staging' = IF res.pc # "panic" /\ res.err # ""
                           THEN staging \ StagingOf(r)
                           ELSE (staging \ StagingOf(r)) \cup
                                {[id |-> r.id, db |-> r.db, out |-> res.out]}
             /\ inv' = [inv EXCEPT ![p] = JobAfterBackup(r, res)]
    /\ UNCHANGED <<fixedVars, today, runningFile, latestFile, tmpBase, trees, dirs,
                   files, nextId>>

\* RunBackupJob lines 210-216: os.MkdirAll of <root>/<db>/<date>; on failure the
\* target is counted failed and no result entry is appended.
JobMkdirFinal(p) ==
    /\ inv[p].kind = "job" /\ inv[p].pc = "j_mkfinal"
    /\ LET r == inv[p]
       IN  \/ /\ dirs' = [dirs EXCEPT ![r.db] = @ \cup {r.date}]
              /\ trees' = trees \cup {r.db}
              /\ inv' = [inv EXCEPT ![p].pc = "j_mv_archive"]
              /\ UNCHANGED <<staging, faults>>
           \/ /\ r.date \notin dirs[r.db]
              /\ Inject(1)
              /\ staging' = staging \ StagingOf(r)
              /\ inv' = [inv EXCEPT ![p] = NextTarget([r EXCEPT !.failed = @ + 1])]
              /\ UNCHANGED <<trees, dirs>>
    /\ UNCHANGED <<fixedVars, today, runningFile, latestFile, tmpBase, files,
                   nextId>>

\* os.Stat and os.Rename of one staged file into the dated directory: the file
\* moves; or its source is missing and nothing is tried; or the rename fails
\* (always so when the dated directory is gone).
MoveFile(p, kind, to) ==
    LET r      == inv[p]
        staged == \E d \in StagingOf(r) : kind \in d.out
    IN  /\ \/ /\ staged
              /\ r.date \in dirs[r.db]
              /\ staging' = {IF d \in StagingOf(r) THEN [d EXCEPT !.out = @ \ {kind}]
                                                   ELSE d : d \in staging}
              /\ files' = files \cup {[db |-> r.db, date |-> r.date,
                                       kind |-> kind, run |-> r.id]}
              /\ UNCHANGED faults
           \/ /\ ~staged
              /\ UNCHANGED <<staging, files, faults>>
           \/ /\ staged
              /\ r.date \notin dirs[r.db]
              /\ UNCHANGED <<staging, files, faults>>
           \/ /\ staged
              /\ r.date \in dirs[r.db]
              /\ Inject(1)
              /\ UNCHANGED <<staging, files>>
        /\ inv' = [inv EXCEPT ![p].pc = to]
        /\ UNCHANGED <<fixedVars, today, runningFile, latestFile, tmpBase, trees, dirs,
                       nextId>>

\* RunBackupJob lines 228-232.
JobMoveArchive(p) ==
    inv[p].kind = "job" /\ inv[p].pc = "j_mv_archive" /\ MoveFile(p, "archive", "j_mv_manifest")

\* RunBackupJob lines 234-238.
JobMoveManifest(p) ==
    inv[p].kind = "job" /\ inv[p].pc = "j_mv_manifest" /\ MoveFile(p, "manifest", "j_record")

\* A variant of Recorded that counts only the targets that succeeded.
Recorded_CountsSuccessOnly(r) ==
    LET e == [db |-> r.db, status |-> r.m.status, error |-> r.m.error]
    IN  IF r.m.status = "success"
        THEN [r EXCEPT !.succeeded = @ + 1, !.backups = Append(@, e)]
        ELSE [r EXCEPT !.backups = Append(@, e)]

\* RunBackupJob lines 241-254: the result entry and the counters.
Recorded(r) ==
    LET e == [db |-> r.db, status |-> r.m.status, error |-> r.m.error]
    IN  IF r.m.status = "success"
        THEN [r EXCEPT !.succeeded = @ + 1, !.backups = Append(@, e)]
        ELSE [r EXCEPT !.failed = @ + 1, !.backups = Append(@, e)]

\* RunBackupJob lines 241-254, with the os.RemoveAll of the staging directory.
JobRecord(p) ==
    /\ inv[p].kind = "job" /\ inv[p].pc = "j_record"
    /\ staging' = staging \ StagingOf(inv[p])
    /\ inv' = [inv EXCEPT ![p] = NextTarget(Recorded(inv[p]))]
    /\ UNCHANGED <<fixedVars, today, runningFile, latestFile, tmpBase, trees, dirs,
                   files, nextId, faults>>

\* The backup tree <root>/<db> as os.Stat and os.ReadDir show it.
TreeOf(db) ==
    [exists  |-> db \in trees,
     entries |-> {[name |-> d, isDir |-> TRUE] : d \in dirs[db]} \cup
                 (IF db \in strays THEN {[name |-> StrayName, isDir |-> FALSE]}
                                   ELSE {})]

Trees == [db \in 1..MaxTargets |-> TreeOf(db)]

\* What os.RemoveAll of the entries removed[db] of every tree leaves of the
\* dated directories, of the other entries and of the files in the directories.
DirsAfter(removed) == [db \in 1..MaxTargets |-> dirs[db] \ removed[db]]

StraysAfter(removed) == {db \in strays : StrayName \notin removed[db]}

FilesAfter(removed) == {f \in files : f.date \notin removed[f.db]}

\* The directories whose removal fails, one set for each database: a removal
\* is tried only for a directory before the cutoff.
BadDirs == {bad \in [1..MaxTargets -> SUBSET (UNION {dirs[db] : db \in 1..MaxTargets})] :
               \A db \in 1..MaxTargets :
                   bad[db] \subseteq {d \in dirs[db] : d < today - retentionDays}}

RECURSIVE SumCard(_, _)
SumCard(f, S) ==
    IF S = {} THEN 0
    ELSE LET x == CHOOSE y \in S : TRUE
         IN  Cardinality(f[x]) + SumCard(f, S \ {x})

\* RunBackupJob lines 257-285: the sweep of every target and the summary.
JobRetention(p) ==
    /\ inv[p].kind = "job" /\ inv[p].pc = "j_retention"
    /\ \E bad \in BadDirs :
         LET c == CleanupAllDatabases(databases, Trees, today, retentionDays,
                                      bad, NoCleanup)
         IN  /\ Inject(SumCard(bad, 1..MaxTargets))
             /\ dirs' = DirsAfter(c.removed)
             /\ files' = FilesAfter(c.removed)
             /\ inv' = [inv EXCEPT ![p].pc = "j_sum_trunc",
                                   ![p].summary = FinalSummary(inv[p], c.counts)]
    /\ UNCHANGED <<fixedVars, today, runningFile, latestFile, tmpBase, staging,
                   trees, nextId>>

\* WriteLastRun (lines 159, 176, 287), first half: latest.json is truncated.
JobSummaryTrunc(p) ==
    /\ inv[p].kind = "job" /\ inv[p].pc = "j_sum_trunc"
    /\ latestFile' = TruncLastRun(latestFile)
    /\ inv' = [inv EXCEPT ![p].pc = "j_sum_write"]
    /\ UNCHANGED <<fixedVars, today, runningFile, tmpBase, staging, trees, dirs, files,
                   nextId, faults>>

\* WriteLastRun, second half: the whole record is written.
JobSummaryWrite(p) ==
    /\ inv[p].kind = "job" /\ inv[p].pc = "j_sum_write"
    /\ \E fits \in CanFit(latestFile.summary, inv[p].summary) :
          latestFile' = WriteLastRun(latestFile, inv[p].summary, fits)
    /\ inv' = [inv EXCEPT ![p].pc = "j_unlock_trunc"]
    /\ UNCHANGED <<fixedVars, today, runningFile, tmpBase, staging, trees, dirs, files,
                   nextId, faults>>

\* The deferred WriteServiceStatus(Running: false) of lines 142-144, the truncation.
JobUnlockTrunc(p) == inv[p].kind = "job" /\ TruncRunning(p, "j_unlock_trunc", "j_unlock_write")

\* RunBackupJob as it returns (lines 160, 177, 297): the summary is the result;
\* after a panic the goroutine goes on unwinding instead, which ends the process.
JobReturned(r) ==
    IF r.panicking THEN [r EXCEPT !.pc = "crashing"]
    ELSE [IdleInv EXCEPT !.kind = r.kind, !.id = r.id, !.pc = "returned",
                         !.result = [status |-> r.summary.status,
                                     error |-> r.summary.error]]

\* The deferred WriteServiceStatus(Running: false), the write, and the return.
JobUnlockWrite(p) ==
    /\ inv[p].kind = "job" /\ inv[p].pc = "j_unlock_write"
    /\ runningFile' = WriteRunning(runningFile, "false")
    /\ inv' = [inv EXCEPT ![p] = JobReturned(@)]
    /\ UNCHANGED <<fixedVars, today, latestFile, tmpBase, staging, trees, dirs, files,
                   nextId, faults>>

\* GetDatabase (lines 316-323): whether the identifier is configured.
GetDatabase(proj) == \E i \in 1..Len(databases) : databases[i] = proj

ErrorResult(msg) == [status |-> "error", error |-> msg]

\* A trigger (POST /run/<project>) calls RunBackupForProject on a goroutine;
\* lines 327-330: an identifier that is not configured is an error.
StartProject(p, proj) ==
    /\ Free(p)
    /\ nextId < MaxStarts
    /\ nextId' = nextId + 1
    /\ LET r == [IdleInv EXCEPT !.kind = "project", !.id = nextId + 1, !.db = proj]
       IN  inv' = [inv EXCEPT ![p] =
                IF GetDatabase(proj)
                THEN [r EXCEPT !.pc = "p_read"]
                ELSE [r EXCEPT !.pc = "returned",
                               !.result = ErrorResult("project not found")]]
    /\ UNCHANGED <<fixedVars, today, runningFile, latestFile, tmpBase, staging,
                   trees, dirs, files, faults>>

\* A variant of ProjAfterRead that goes on when the lock is held.
ProjAfterRead_IgnoresLock(r, st, now) ==
    CASE st = "err" -> [r EXCEPT !.pc = "crashing"]
      [] OTHER      -> [r EXCEPT !.pc = "p_mktemp", !.date = now]

\* What RunBackupForProject lines 333-342 make of the lock state read: a nil
\* status panics on status.Running; a held lock is the error; else the backup
\* date is taken and the work begins.
ProjAfterRead(r, st, now) ==
    CASE st = "err"  -> [r EXCEPT !.pc = "crashing"]
      [] st = "true" -> [r EXCEPT !.pc = "returned",
                            !.result = ErrorResult("backup job is already running")]
      [] OTHER       -> [r EXCEPT !.pc = "p_mktemp", !.date = now]

\* A variant of ProjReadStatus that takes the lock as RunBackupJob does.
ProjReadStatus_TakesLock(p) ==
    /\ inv[p].kind = "project" /\ inv[p].pc = "p_read"
    /\ inv' = [inv EXCEPT ![p] = ProjAfterRead(@, ReadServiceStatus, today)]
    /\ runningFile' = IF ReadServiceStatus = "false" THEN "true" ELSE runningFile
    /\ UNCHANGED <<fixedVars, today, latestFile, tmpBase, staging,
                   trees, dirs, files, nextId, faults>>

\* RunBackupForProject lines 333-342.
ProjReadStatus(p) ==
    /\ inv[p].kind = "project" /\ inv[p].pc = "p_read"
    /\ inv' = [inv EXCEPT ![p] = ProjAfterRead(@, ReadServiceStatus, today)]
    /\ UNCHANGED <<fixedVars, today, runningFile, latestFile, tmpBase, staging,
                   trees, dirs, files, nextId, faults>>

\* RunBackupForProject lines 347-356: the staging root and the staging directory.
ProjMkdirTemp(p) ==
    /\ inv[p].kind = "project" /\ inv[p].pc = "p_mktemp"
    /\ LET r == [inv[p] EXCEPT !.attempted = Append(@, inv[p].db)]
       IN  \/ /\ ~tmpBase
              /\ Inject(1)
              /\ inv' = [inv EXCEPT ![p].pc = "returned",
                            ![p].result = ErrorResult("failed to create temp base directory")]
              /\ UNCHANGED <<tmpBase, staging>>
           \/ /\ Inject(1)
              /\ tmpBase' = TRUE
              /\ inv' = [inv EXCEPT ![p] = [r EXCEPT !.pc = "returned",
                            !.result = ErrorResult("failed to create temp directory")]]
              /\ UNCHANGED staging
           \/ /\ tmpBase' = TRUE
              /\ staging' = staging \cup {[id |-> r.id, db |-> r.db, out |-> {}]}
              /\ inv' = [inv EXCEPT ![p] = [r EXCEPT !.pc = "p_backup"]]
              /\ UNCHANGED faults
    /\ UNCHANGED <<fixedVars, today, runningFile, latestFile, trees, dirs, files, nextId>>

\* What RunBackupForProject lines 358-363 make of CreateBackup's outcome res.
ProjAfterBackup(r, res) ==
    CASE res.pc = "panic" -> [r EXCEPT !.pc = "p_cleanup", !.panicking = TRUE]
      [] res.err # "" -> [r EXCEPT !.pc = "p_cleanup",
                                   !.result = ErrorResult("backup failed")]
      [] OTHER -> [r EXCEPT !.m = res.manifest,
                            !.pc = IF res.manifest.status = "success"
                                      /\ Len(res.manifest.files) > 0
                                   THEN "p_mkfinal" ELSE "p_cleanup"]

\* RunBackupForProject lines 358-363: the call of CreateBackup.
ProjCreateBackup(p) ==
    /\ inv[p].kind = "project" /\ inv[p].pc = "p_backup"
    /\ \E e \in PipeEnvs :
         LET r   == inv[p]
             res == CreateBackup(e)
         IN  /\ Inject(EnvFaults(e))
             /\ staging' = (staging \ StagingOf(r)) \cup
                           {[id |-> r.id, db |-> r.db, out |-> res.out]}
             /\ inv' = [inv EXCEPT ![p] = ProjAfterBackup(r, res)]
    /\ UNCHANGED <<fixedVars, today, runningFile, latestFile, tmpBase, trees, dirs,
                   files, nextId>>

\* RunBackupForProject lines 365-368: os.MkdirAll of <root>/<db>/<date>.
ProjMkdirFinal(p) ==
    /\ inv[p].kind = "project" /\ inv[p].pc = "p_mkfinal"
    /\ LET r == inv[p]
       IN  \/ /\ dirs' = [dirs EXCEPT ![r.db] = @ \cup {r.date}]
              /\ trees' = trees \cup {r.db}
              /\ inv' = [inv EXCEPT ![p].pc = "p_mv_archive"]
              /\ UNCHANGED faults
           \/ /\ r.date \notin dirs[r.db]
              /\ Inject(1)
              /\ inv' = [inv EXCEPT ![p].pc = "p_cleanup",
                            ![p].result = ErrorResult("failed to create backup directory")]
              /\ UNCHANGED <<trees, dirs>>
    /\ UNCHANGED <<fixedVars, today, runningFile, latestFile, tmpBase, staging,
                   files, nextId>>

\* RunBackupForProject lines 380-384.
ProjMoveArchive(p) ==
    inv[p].kind = "project" /\ inv[p].pc = "p_mv_archive"
        /\ MoveFile(p, "archive", "p_mv_manifest")

\* RunBackupForProject lines 386-390.
ProjMoveManifest(p) ==
    inv[p].kind = "project" /\ inv[p].pc = "p_mv_manifest"
        /\ MoveFile(p, "manifest", "p_cleanup")

\* RunBackupForProject as it returns (lines 393-406): an error, or the result
\* built from the manifest; after a panic the goroutine goes on unwinding
\* instead, which ends the process.
ProjReturned(r) ==
    IF r.panicking THEN [r EXCEPT !.pc = "crashing"]
    ELSE [IdleInv EXCEPT !.kind = r.kind, !.id = r.id, !.pc = "returned",
                         !.result = IF r.result.status = "error" THEN r.result
                                    ELSE [status |-> r.m.status, error |-> r.m.error]]

\* The deferred os.RemoveAll of line 356, and the return.
ProjCleanup(p) ==
    /\ inv[p].kind = "project" /\ inv[p].pc = "p_cleanup"
    /\ staging' = staging \ StagingOf(inv[p])
    /\ inv' = [inv EXCEPT ![p] = ProjReturned(@)]
    /\ UNCHANGED <<fixedVars, today, runningFile, latestFile, tmpBase, trees, dirs,
                   files, nextId, faults>>

\* A panic that no goroutine recovers ends the process, and with it every
\* goroutine; the service is started again on the same backup root.
ProcessExit ==
    /\ \E p \in Procs : inv[p].pc = "crashing"
    /\ inv' = [p \in Procs |-> IdleInv]
    /\ UNCHANGED <<fixedVars, today, runningFile, latestFile, tmpBase, staging,
                   trees, dirs, files, nextId, faults>>

\* The process is killed from outside while an invocation runs, and restarted.
Kill ==
    /\ \E p \in Procs : Running(p)
    /\ \A p \in Procs : inv[p].pc # "crashing"
    /\ Inject(1)
    /\ inv' = [p \in Procs |-> IdleInv]
    /\ UNCHANGED <<fixedVars, today, runningFile, latestFile, tmpBase, staging,
                   trees, dirs, files, nextId>>

\* A step of one goroutine's RunBackupJob.
JobStep(p) ==
    \/ StartJob(p)
    \/ JobReadStatus(p)
    \/ JobLockTrunc(p)
    \/ JobLockWrite(p)
    \/ JobBegin(p)
    \/ JobMkdirTemp(p)
    \/ JobCreateBackup(p)
    \/ JobMkdirFinal(p)
    \/ JobMoveArchive(p)
    \/ JobMoveManifest(p)
    \/ JobRecord(p)
    \/ JobRetention(p)
    \/ JobSummaryTrunc(p)
    \/ JobSummaryWrite(p)
    \/ JobUnlockTrunc(p)
    \/ JobUnlockWrite(p)

\* A step of one goroutine's RunBackupForProject.
ProjStep(p) ==
    \/ \E proj \in 1..(MaxTargets + 1) : StartProject(p, proj)
    \/ ProjReadStatus(p)
    \/ ProjMkdirTemp(p)
    \/ ProjCreateBackup(p)
    \/ ProjMkdirFinal(p)
    \/ ProjMoveArchive(p)
    \/ ProjMoveManifest(p)
    \/ ProjCleanup(p)

Next ==
    \/ \E p \in Procs : JobStep(p)
    \/ \E p \in Procs : ProjStep(p)
    \/ ProcessExit
    \/ Kill

Spec == Init /\ [][Next]_vars

\* --------------------------------------------- CreateBackup, phase by phase
\* What no statement of CreateBackup changes: the state of the service.
pipeFrame == <<config, databases, retentionDays, today, runningFile, latestFile, tmpBase,
               staging, trees, dirs, strays, files, inv, nextId, faults, penv,
               store, sweep, docker, life>>

\* One CreateBackup call under any environment, before its first statement.
InitPipeline ==
    /\ config = <<"valid">>
    /\ databases = <<1>>
    /\ retentionDays = DefaultRetentionDays
    /\ today = 0
    /\ runningFile = "true"
    /\ latestFile = LatestAbsent
    /\ tmpBase = TRUE
    /\ staging = {}
    /\ trees = {}
    /\ dirs = [db \in 1..MaxTargets |-> {}]
    /\ strays = {}
    /\ files = {}
    /\ inv = [p \in Procs |-> IdleInv]
    /\ nextId = 0
    /\ faults = 0
    /\ pipe = PipeStart
    /\ penv \in PipeEnvs
    /\ store = StoreIdle
    /\ sweep = NoSweep
    /\ docker = DockerIdle
    /\ life = LifeIdle

StepDetectVersion ==
    pipe.pc = "detect" /\ pipe' = DetectVersion(pipe, penv) /\ UNCHANGED pipeFrame

StepCollectMetrics ==
    pipe.pc = "metrics" /\ pipe' = CollectMetrics(pipe, penv) /\ UNCHANGED pipeFrame

StepMkWorkDir ==
    pipe.pc = "mkdir" /\ pipe' = MkWorkDir(pipe, penv) /\ UNCHANGED pipeFrame

StepDumpRoles ==
    pipe.pc = "roles" /\ pipe' = DumpRoles(pipe, penv) /\ UNCHANGED pipeFrame

StepDumpSchema ==
    pipe.pc = "schema" /\ pipe' = DumpSchema(pipe, penv) /\ UNCHANGED pipeFrame

StepDumpData ==
    pipe.pc = "data" /\ pipe' = DumpData(pipe, penv) /\ UNCHANGED pipeFrame

StepCreateArchive ==
    pipe.pc = "archive" /\ pipe' = CreateArchive(pipe, penv) /\ UNCHANGED pipeFrame

StepBuildManifest ==
    pipe.pc = "manifest" /\ pipe' = BuildManifest(pipe, penv) /\ UNCHANGED pipeFrame

StepSaveManifest ==
    pipe.pc = "save" /\ pipe' = SaveManifest(pipe, penv) /\ UNCHANGED pipeFrame

NextPipeline ==
    \/ StepDetectVersion
    \/ StepCollectMetrics
    \/ StepMkWorkDir
    \/ StepDumpRoles
    \/ StepDumpSchema
    \/ StepDumpData
    \/ StepCreateArchive
    \/ StepBuildManifest
    \/ StepSaveManifest

SpecPipeline == InitPipeline /\ [][NextPipeline]_vars

\* ------------------------------------------- WriteLastRun, call after call
\* What no step of SpecStore changes.
storeFrame == <<config, databases, retentionDays, today, runningFile, tmpBase, staging,
                trees, dirs, strays, files, inv, nextId, faults, pipe, penv, sweep,
                docker, life>>

\* The Run Summaries run number id can hand to WriteLastRun: the summary of
\* an exit before the loop, or one with counts.
StoreRecords(id) ==
    {EarlySummary([id |-> id], "No databases configured")} \cup
    {[NoSummary EXCEPT !.run_id = id, !.counted = TRUE, !.total = sf[1] + sf[2],
                       !.succeeded = sf[1], !.failed = sf[2],
                       !.status = OverallStatus(sf[1], sf[2])] :
        sf \in {<<1, 0>>, <<0, 1>>, <<1, 1>>}}

InitStore ==
    /\ config = <<"valid">>
    /\ databases = <<1>>
    /\ retentionDays = DefaultRetentionDays
    /\ today = 0
    /\ runningFile = "true"
    /\ latestFile = LatestAbsent
    /\ tmpBase = TRUE
    /\ staging = {}
    /\ trees = {}
    /\ dirs = [db \in 1..MaxTargets |-> {}]
    /\ strays = {}
    /\ files = {}
    /\ inv = [p \in Procs |-> IdleInv]
    /\ nextId = 0
    /\ faults = 0
    /\ pipe = PipeIdle
    /\ penv = [detect |-> 0, metrics |-> FALSE, failAt |-> "none"]
    /\ store = StoreIdle
    /\ sweep = NoSweep
    /\ docker = DockerIdle
    /\ life = LifeIdle

\* A caller hands its Run Summary to WriteLastRun.
StoreCall ==
    /\ store.pc = "idle"
    /\ Len(store.written) < MaxWrites
    /\ \E data \in StoreRecords(Len(store.written) + 1) :
          store' = [store EXCEPT !.pc = "trunc", !.data = data]
    /\ UNCHANGED <<latestFile, storeFrame>>

\* WriteLastRun line 49, os.WriteFile: the truncating open.
StoreTrunc ==
    /\ store.pc = "trunc"
    /\ latestFile' = TruncLastRun(latestFile)
    /\ store' = [store EXCEPT !.pc = "write"]
    /\ UNCHANGED storeFrame

\* WriteLastRun line 49, os.WriteFile: the write; the call returns.
StoreWrite ==
    /\ store.pc = "write"
    /\ \E fits \in CanFit(latestFile.summary, store.data) :
          latestFile' = WriteLastRun(latestFile, store.data, fits)
    /\ store' = [store EXCEPT !.pc = "idle", !.written = Append(@, store.data)]
    /\ UNCHANGED storeFrame

NextStore ==
    \/ StoreCall
    \/ StoreTrunc
    \/ StoreWrite

SpecStore == InitStore /\ [][NextStore]_vars

\* ------------------------------------------------- the retention sweeps
\* What no step of SpecRetention changes.
retentionFrame == <<config, databases, retentionDays, runningFile, latestFile, tmpBase,
                    staging, inv, nextId, faults, pipe, penv, store, docker,
                    life>>

Days == 0..MaxDay

\* The removals that can fail in one sweep: none, or that of one directory
\* (a sweep ends at the first removal that fails).
OneBad(dd) ==
    {[db \in 1..MaxTargets |-> {}]} \cup
    {[db \in 1..MaxTargets |-> IF db = b[1] THEN {b[2]} ELSE {}] :
        b \in {x \in (1..MaxTargets) \X Days : x[2] \in dd[x[1]]}}

\* The archive and the manifest that a promoted backup leaves in the dated
\* directory of day date.
BackupFiles(db, date) ==
    {[db |-> db, date |-> date, kind |-> k, run |-> 0] : k \in {"archive", "manifest"}}

\* A backup root with any dated directories under the configured targets, each
\* with its archive and manifest, on any day, under any RETENTION_DAYS; the
\* tree of a target without dated directories may not exist, and a tree that
\* exists may hold an entry that is no directory.
InitRetention ==
    /\ \E n \in 1..MaxTargets : /\ config = [i \in 1..n |-> "valid"]
                                /\ databases = [i \in 1..n |-> i]
    /\ retentionDays \in 0..MaxRetention
    /\ today \in Days
    /\ dirs \in [1..MaxTargets -> SUBSET Days]
    /\ \A db \in 1..MaxTargets : db > Len(databases) => dirs[db] = {}
    /\ trees \in SUBSET (1..Len(databases))
    /\ \A db \in 1..MaxTargets : dirs[db] # {} => db \in trees
    /\ strays \in SUBSET trees
    /\ files = UNION {BackupFiles(x[1], x[2]) :
                          x \in {y \in (1..MaxTargets) \X Days : y[2] \in dirs[y[1]]}}
    /\ runningFile = "true"
    /\ latestFile = LatestAbsent
    /\ tmpBase = TRUE
    /\ staging = {}
    /\ inv = [p \in Procs |-> IdleInv]
    /\ nextId = 0
    /\ faults = 0
    /\ pipe = PipeIdle
    /\ penv = [detect |-> 0, metrics |-> FALSE, failAt |-> "none"]
    /\ store = StoreIdle
    /\ sweep = NoSweep
    /\ docker = DockerIdle
    /\ life = LifeIdle

\* One call of CleanupOldBackups for a configured target.
SweepDatabase ==
    \E i \in 1..Len(databases) : \E bad \in OneBad(dirs) :
        LET db      == databases[i]
            r       == CleanupOldBackupsOf(TreeOf(db), today, retentionDays, bad[db])
            removed == [NoSweep.removed EXCEPT ![db] = r.removed]
        IN  /\ dirs' = DirsAfter(removed)
            /\ strays' = StraysAfter(removed)
            /\ files' = FilesAfter(removed)
            /\ sweep' = [NoSweep EXCEPT !.kind = "one", !.db = db, !.before = dirs,
                                         !.deleted = r.deleted, !.err = r.err,
                                         !.removed[db] = r.removed,
                                         !.bad = bad[db]]
            /\ UNCHANGED <<today, trees, retentionFrame>>

\* One call of CleanupAllDatabases for the configured targets.
SweepAll ==
    \E bad \in OneBad(dirs) :
        LET c == CleanupAllDatabases(databases, Trees, today, retentionDays,
                                     bad, NoCleanup)
        IN  /\ dirs' = DirsAfter(c.removed)
            /\ strays' = StraysAfter(c.removed)
            /\ files' = FilesAfter(c.removed)
            /\ sweep' = [NoSweep EXCEPT !.kind = "all", !.before = dirs,
                                         !.err = c.err, !.removed = c.removed,
                                         !.swept = c.swept, !.counts = c.counts]
            /\ UNCHANGED <<today, trees, retentionFrame>>

\* A backup of a configured target creates today's dated directory.
BackupToday ==
    \E i \in 1..Len(databases) :
        /\ today \notin dirs[databases[i]]
        /\ trees' = trees \cup {databases[i]}
        /\ dirs' = [dirs EXCEPT ![databases[i]] = @ \cup {today}]
        /\ files' = files \cup BackupFiles(databases[i], today)
        /\ sweep' = NoSweep
        /\ UNCHANGED <<today, strays, retentionFrame>>

\* Midnight passes.
NextDay ==
    /\ today < MaxDay
    /\ today' = today + 1
    /\ sweep' = NoSweep
    /\ UNCHANGED <<trees, dirs, strays, files, retentionFrame>>

NextRetention ==
    \/ SweepDatabase
    \/ SweepAll
    \/ BackupToday
    \/ NextDay

SpecRetention == InitRetention /\ [][NextRetention]_vars

\* -------------------------------------- RunOnceWithConfig, call by call
\* What no step of SpecDocker changes.
dockerFrame == <<config, databases, retentionDays, today, runningFile, latestFile, tmpBase,
                 staging, trees, dirs, strays, files, inv, nextId, faults, pipe,
                 penv, store, sweep, life>>

InitDocker ==
    /\ config = <<"valid">>
    /\ databases = <<1>>
    /\ retentionDays = DefaultRetentionDays
    /\ today = 0
    /\ runningFile = "true"
    /\ latestFile = LatestAbsent
    /\ tmpBase = TRUE
    /\ staging = {}
    /\ trees = {}
    /\ dirs = [db \in 1..MaxTargets |-> {}]
    /\ strays = {}
    /\ files = {}
    /\ inv = [p \in Procs |-> IdleInv]
    /\ nextId = 0
    /\ faults = 0
    /\ pipe = PipeIdle
    /\ penv = [detect |-> 0, metrics |-> FALSE, failAt |-> "none"]
    /\ store = StoreIdle
    /\ sweep = NoSweep
    /\ \E e \in DockerEnvs : docker = DockerStart(e)
    /\ life = LifeIdle

\* A call of the Docker API with the caller's context: it succeeds only while
\* the context is not done, and can fail at any time.
ApiCall(ok) == ok \in BOOLEAN /\ (docker.ctxDone => ~ok)

\* The call returns err without a container of its own.
ReturnsEarly(kind) ==
    docker' = [docker EXCEPT !.pc = "returned", !.error = [NoError EXCEPT !.kind = kind]]

\* The call returns err: the deferred ContainerRemove runs next.
Unwinds(kind) ==
    docker' = [docker EXCEPT !.pc = "remove", !.error = [NoError EXCEPT !.kind = kind]]

\* Lines 160-162: PullImageIfNotCached.
DockerPull ==
    /\ docker.pc = "pull"
    /\ \E ok \in BOOLEAN :
          /\ ApiCall(ok)
          /\ IF ok THEN docker' = [docker EXCEPT !.pc = "create"]
                   ELSE ReturnsEarly("pull")
    /\ UNCHANGED dockerFrame

\* Lines 165-169: ContainerCreate.
DockerCreate ==
    /\ docker.pc = "create"
    /\ \E ok \in BOOLEAN :
          /\ ApiCall(ok)
          /\ IF ok THEN docker' = [docker EXCEPT !.pc = "start", !.container = "created"]
                   ELSE ReturnsEarly("create")
    /\ UNCHANGED dockerFrame

\* Lines 179-181: ContainerStart.
DockerStartContainer ==
    /\ docker.pc = "start"
    /\ \E ok \in BOOLEAN :
          /\ ApiCall(ok)
          /\ IF ok THEN docker' = [docker EXCEPT !.pc = "wait", !.container = "running"]
                   ELSE Unwinds("start")
    /\ UNCHANGED dockerFrame

\* Lines 184-191: ContainerWait: the exit code of the command, or an error
\* (the context's, when it is done) while the container may still run.
DockerWait ==
    /\ docker.pc = "wait"
    /\ \E ok \in BOOLEAN :
          /\ ApiCall(ok)
          /\ IF ok THEN docker' = [docker EXCEPT !.pc = "logs", !.container = "exited",
                                                  !.exitCode = docker.env.exit]
                   ELSE Unwinds("wait")
    /\ UNCHANGED dockerFrame

\* Lines 194-202: ContainerLogs.
DockerLogs ==
    /\ docker.pc = "logs"
    /\ \E ok \in BOOLEAN :
          /\ ApiCall(ok)
          /\ IF ok THEN docker' = [docker EXCEPT !.pc = "copy"]
                   ELSE Unwinds("logs")
    /\ UNCHANGED dockerFrame

\* Lines 204-206: stdcopy.StdCopy into the caller's two buffers.
DockerCopy ==
    /\ docker.pc = "copy"
    /\ \E ok \in BOOLEAN :
          /\ ApiCall(ok)
          /\ IF ok THEN docker' = [docker EXCEPT !.pc = "check",
                                                  !.stdout = docker.env.out,
                                                  !.stderr = docker.env.err]
                   ELSE Unwinds("copy")
    /\ UNCHANGED dockerFrame

\* Lines 208-221: the exit code decides the result.
DockerCheck ==
    /\ docker.pc = "check"
    /\ docker' = [docker EXCEPT !.pc = "remove",
                                !.error = ExitError(docker.exitCode, docker.stdout,
                                                    docker.stderr)]
    /\ UNCHANGED dockerFrame

\* Lines 172-176, the deferred ContainerRemove(ctx, Force) whose error is
\* dropped, and the return: with a context that is done the request is not
\* sent and the container stays; a request that is sent is taken to be
\* carried out by the daemon.
DockerRemove ==
    /\ docker.pc = "remove"
    /\ docker' = [docker EXCEPT !.pc = "returned",
                                !.container = IF docker.ctxDone THEN @ ELSE "removed"]
    /\ UNCHANGED dockerFrame

\* The caller cancels the context, or its deadline passes, during the call.
CtxDone ==
    /\ docker.pc \notin {"idle", "returned"}
    /\ ~docker.ctxDone
    /\ docker' = [docker EXCEPT !.ctxDone = TRUE]
    /\ UNCHANGED dockerFrame

NextDocker ==
    \/ DockerPull
    \/ DockerCreate
    \/ DockerStartContainer
    \/ DockerWait
    \/ DockerLogs
    \/ DockerCopy
    \/ DockerCheck
    \/ DockerRemove
    \/ CtxDone

SpecDocker == InitDocker /\ [][NextDocker]_vars

\* ------------------------------------- the process, from start to exit
\* What no step of main, of the scheduler or of the HTTP server changes.
lifeFrame == <<config, databases, retentionDays, strays, pipe, penv, store, sweep, docker>>

\* One configured target, an empty backup root, and an environment without
\* failures (the budget of failures is spent): what is left open is whether
\* the database of a dump ever answers, and whether the caller of
\* Service.Shutdown gives it a context with a deadline (main, part_003 lines
\* 33 and 58, gives context.Background(); the test, part_000 line 62, a timeout).
InitLife ==
    /\ config = <<"valid">>
    /\ databases = New(config)
    /\ retentionDays = DefaultRetentionDays
    /\ today = 0
    /\ runningFile = "absent"
    /\ latestFile = LatestAbsent
    /\ tmpBase = FALSE
    /\ staging = {}
    /\ trees = {}
    /\ dirs = [db \in 1..MaxTargets |-> {}]
    /\ strays = {}
    /\ files = {}
    /\ inv = [p \in Procs |-> IdleInv]
    /\ nextId = 0
    /\ faults = MaxFaults
    /\ pipe = PipeIdle
    /\ penv = [detect |-> 0, metrics |-> FALSE, failAt |-> "none"]
    /\ store = StoreIdle
    /\ sweep = NoSweep
    /\ docker = DockerIdle
    /\ \E h, d \in BOOLEAN : life = [LifeIdle EXCEPT !.hangs = h, !.deadline = d]

\* The invocation a trigger starts on goroutine p: RunBackupJob is called
\* with context.Background() (service.go line 100, part_001 line 149).
Triggered(p) ==
    /\ Free(p)
    /\ nextId < MaxStarts
    /\ nextId' = nextId + 1
    /\ inv' = [inv EXCEPT ![p] = [IdleInv EXCEPT !.kind = "job", !.pc = "j_read",
                                                 !.id = nextId + 1]]

\* setupScheduler lines 99-104: the cron entry fires; the scheduler runs the
\* function on a goroutine of its own, which its Stop waits for.
CronFire(p) ==
    /\ life.main # "exited" /\ life.cron = "started"
    /\ Triggered(p)
    /\ life' = [life EXCEPT !.cronJobs = @ \cup {nextId + 1}]
    /\ UNCHANGED <<lifeFrame, today, runningFile, latestFile, tmpBase, staging,
                   trees, dirs, files, faults>>

\* handleRun (part_001 lines 127-160), POST /run: 500 when GetRunning fails,
\* 409 when the lock reads running; else RunBackupJob is started on a
\* goroutine nobody waits for and the request is answered accepted.
HandleRun(p) ==
    /\ life.main # "exited" /\ life.api = "serving"
    /\ \/ /\ GetRunning = "err"
          /\ life' = [life EXCEPT !.answer = "500"]
          /\ UNCHANGED <<inv, nextId>>
       \/ /\ GetRunning = "true"
          /\ life' = [life EXCEPT !.answer = "409"]
          /\ UNCHANGED <<inv, nextId>>
       \/ /\ GetRunning = "false"
          /\ Triggered(p)
          /\ life' = [life EXCEPT !.answer = "accepted",
                                  !.accepted = @ \cup {nextId + 1}]
    /\ UNCHANGED <<lifeFrame, today, runningFile, latestFile, tmpBase, staging,
                   trees, dirs, files, faults>>

\* The call of CreateBackup returns: its containers wait for the database
\* with a context nobody cancels, so it returns only if the database answers.
LifeCreateBackup(p) == ~life.hangs /\ JobCreateBackup(p)

\* The scheduler's jobs that are still running (cron's jobWaiter).
CronJobsRunning == {p \in Procs : Running(p) /\ inv[p].id \in life.cronJobs}

\* main lines 50-54: the signal arrives.
Signal ==
    /\ life.main = "waiting"
    /\ life' = [life EXCEPT !.main = "api_shutdown"]
    /\ UNCHANGED <<lifeFrame, today, runningFile, latestFile, tmpBase, staging,
                   trees, dirs, files, inv, nextId, faults>>

\* main lines 55-57, Server.Shutdown: the HTTP server stops serving; the
\* goroutines its handlers started are not its concern.
ApiShutdown ==
    /\ life.main = "api_shutdown"
    /\ life' = [life EXCEPT !.main = "svc_shutdown", !.api = "down"]
    /\ UNCHANGED <<lifeFrame, today, runningFile, latestFile, tmpBase, staging,
                   trees, dirs, files, inv, nextId, faults>>

\* Service.Shutdown lines 410-411: cron.Stop, after which the entry no longer
\* fires.
CronStop ==
    /\ life.main = "svc_shutdown"
    /\ life' = [life EXCEPT !.main = "svc_wait", !.cron = "stopped"]
    /\ UNCHANGED <<lifeFrame, today, runningFile, latestFile, tmpBase, staging,
                   trees, dirs, files, inv, nextId, faults>>

\* The deadline of the context given to Service.Shutdown passes.
ShutdownCtxDone ==
    /\ life.main = "svc_wait" /\ life.deadline /\ ~life.ctxDone
    /\ life' = [life EXCEPT !.ctxDone = TRUE]
    /\ UNCHANGED <<lifeFrame, today, runningFile, latestFile, tmpBase, staging,
                   trees, dirs, files, inv, nextId, faults>>

\* Service.Shutdown lines 412-418, the select: nil once the scheduler's own
\* jobs have returned, the context's error once the context is done.
ShutdownReturns ==
    /\ life.main = "svc_wait"
    /\ \/ /\ CronJobsRunning = {}
          /\ life' = [life EXCEPT !.main = "returning", !.shutdown = "nil"]
       \/ /\ life.ctxDone
          /\ life' = [life EXCEPT !.main = "returning", !.shutdown = "ctx"]
    /\ UNCHANGED <<lifeFrame, today, runningFile, latestFile, tmpBase, staging,
                   trees, dirs, files, inv, nextId, faults>>

\* main line 60: main returns and the process exits, with every goroutine.
MainReturns ==
    /\ life.main = "returning"
    /\ life' = [life EXCEPT !.main = "exited"]
    /\ inv' = [p \in Procs |-> IdleInv]
    /\ UNCHANGED <<lifeFrame, today, runningFile, latestFile, tmpBase, staging,
                   trees, dirs, files, nextId, faults>>

\* A panic that no goroutine recovers ends the process.
LifeCrash ==
    /\ \E p \in Procs : inv[p].pc = "crashing"
    /\ life' = [life EXCEPT !.main = "exited"]
    /\ inv' = [p \in Procs |-> IdleInv]
    /\ UNCHANGED <<lifeFrame, today, runningFile, latestFile, tmpBase, staging,
                   trees, dirs, files, nextId, faults>>

NextLife ==
    \/ \E p \in Procs : CronFire(p)
    \/ \E p \in Procs : HandleRun(p)
    \/ \E p \in Procs : JobReadStatus(p)
    \/ \E p \in Procs : JobLockTrunc(p)
    \/ \E p \in Procs : JobLockWrite(p)
    \/ \E p \in Procs : JobBegin(p)
    \/ \E p \in Procs : JobMkdirTemp(p)
    \/ \E p \in Procs : LifeCreateBackup(p)
    \/ \E p \in Procs : JobMkdirFinal(p)
    \/ \E p \in Procs : JobMoveArchive(p)
    \/ \E p \in Procs : JobMoveManifest(p)
    \/ \E p \in Procs : JobRecord(p)
    \/ \E p \in Procs : JobRetention(p)
    \/ \E p \in Procs : JobSummaryTrunc(p)
    \/ \E p \in Procs : JobSummaryWrite(p)
    \/ \E p \in Procs : JobUnlockTrunc(p)
    \/ \E p \in Procs : JobUnlockWrite(p)
    \/ Signal
    \/ ApiShutdown
    \/ CronStop
    \/ ShutdownCtxDone
    \/ ShutdownReturns
    \/ MainReturns
    \/ LifeCrash

\* The statements of main after the signal, and the end of the process.
MainStep ==
    \/ Signal
    \/ ApiShutdown
    \/ CronStop
    \/ ShutdownCtxDone
    \/ ShutdownReturns
    \/ MainReturns
    \/ LifeCrash

\* The statements of RunBackupJob on goroutine p around the call of CreateBackup.
JobStepAround(p) ==
    \/ JobReadStatus(p)
    \/ JobLockTrunc(p)
    \/ JobLockWrite(p)
    \/ JobBegin(p)
    \/ JobMkdirTemp(p)
    \/ JobMkdirFinal(p)
    \/ JobMoveArchive(p)
    \/ JobMoveManifest(p)
    \/ JobRecord(p)
    \/ JobRetention(p)
    \/ JobSummaryTrunc(p)
    \/ JobSummaryWrite(p)
    \/ JobUnlockTrunc(p)
    \/ JobUnlockWrite(p)

\* Goroutine p is in a call of CreateBackup whose database answers: the
\* condition under which LifeCreateBackup(p) can happen.
DumpPending(p) == inv[p].kind = "job" /\ inv[p].pc = "j_backup" /\ ~life.hangs

\* The Go scheduler lets every goroutine that can take a step take one: main,
\* and every goroutine in RunBackupJob; a call of CreateBackup whose database
\* answers returns (weak fairness of LifeCreateBackup(p), stated through the
\* condition that enables it).  The triggers and the signal owe nothing.
SpecLife ==
    /\ InitLife /\ [][NextLife]_vars
    /\ WF_vars(MainStep)
    /\ \A p \in Procs : WF_vars(JobStepAround(p)) /\ []<>~DumpPending(p)

\* ------------------------------------------- targeted backups on their own
\* POST /run/<project> requests against the service of Init, with no bulk
\* job around: every goroutine runs RunBackupForProject only.
NextProject ==
    \/ \E p \in Procs : ProjStep(p)
    \/ ProcessExit

\* The statements of RunBackupForProject on goroutine p around the call of
\* CreateBackup.
ProjStepAround(p) ==
    \/ ProjReadStatus(p)
    \/ ProjMkdirTemp(p)
    \/ ProjMkdirFinal(p)
    \/ ProjMoveArchive(p)
    \/ ProjMoveManifest(p)
    \/ ProjCleanup(p)

\* The Go scheduler lets every goroutine in RunBackupForProject that can take
\* a step take one; a call of CreateBackup returns or panics (weak fairness
\* of ProjCreateBackup(p), stated through the condition that enables it); a
\* panic ends the process.  The requests owe nothing.
SpecProject ==
    /\ Init /\ [][NextProject]_vars
    /\ WF_vars(ProcessExit)
    /\ \A p \in Procs : WF_vars(ProjStepAround(p)) /\ []<>(inv[p].pc # "p_backup")

\* --------------------------------------------- bulk jobs while days pass
\* One goroutine runs RunBackupJob invocations one after the other while the
\* clock moves on; RETENTION_DAYS is any number of days from 0 on, every
\* configured target is valid, and the environment injects no failure (the
\* budget of failures is spent).
InitMidnight ==
    /\ \E n \in 1..MaxTargets : config = [i \in 1..n |-> "valid"]
    /\ databases = New(config)
    /\ retentionDays \in 0..MaxRetention
    /\ today = 0
    /\ runningFile = "absent"
    /\ latestFile = LatestAbsent
    /\ tmpBase = FALSE
    /\ staging = {}
    /\ trees = {}
    /\ dirs = [db \in 1..MaxTargets |-> {}]
    /\ strays = {}
    /\ files = {}
    /\ inv = [p \in Procs |-> IdleInv]
    /\ nextId = 0
    /\ faults = MaxFaults
    /\ pipe = PipeIdle
    /\ penv = [detect |-> 0, metrics |-> FALSE, failAt |-> "none"]
    /\ store = StoreIdle
    /\ sweep = NoSweep
    /\ docker = DockerIdle
    /\ life = LifeIdle

\* Midnight passes: time.Now() falls on the next calendar day.
Midnight ==
    /\ today < MaxDay
    /\ today' = today + 1
    /\ UNCHANGED <<fixedVars, runningFile, latestFile, tmpBase, staging, trees, dirs,
                   files, inv, nextId, faults>>

NextMidnight ==
    \/ \E p \in {1} : JobStep(p)
    \/ Midnight

SpecMidnight == InitMidnight /\ [][NextMidnight]_vars

\* ------------------------------------------------------------ properties
\* Goroutine p takes a step of its own invocation (a kill or a process exit
\* resets the goroutine instead).
OwnStep(p) == inv'[p] # inv[p] /\ inv'[p].id = inv[p].id

\* A RunBackupJob invocation that passed the lock check ends in this step: it
\* returns its summary, or the process exits on the panic it raised in a phase.
JobEnds(p) ==
    /\ inv[p].kind = "job"
    /\ \/ JobPastLock(p) /\ OwnStep(p) /\ inv'[p].pc = "returned"
       \/ inv[p].pc = "crashing" /\ inv[p].panicking /\ inv'[p].pc = "idle"

\* Staging, dump and promotion steps of either kind of job.
BackupSteps(p) ==
    \/ JobWorking(p) /\ inv[p].pc # "j_retention"
    \/ ProjectWorking(p)

\* Nothing in the staging area or in a dated directory comes from invocation id.
Untouched(id) ==
    /\ \A d \in staging : d.id # id
    /\ \A f \in files : f.run # id

\* C1: of two overlapping RunBackupJob invocations at most one is past the
\* lock check; the other one returns already_running.
C1_ExactlyOnePastLock ==
    \A p, q \in Procs : p # q => ~(JobPastLock(p) /\ JobPastLock(q))

\* C2: when a RunBackupJob invocation ends, by a return or by a panic in a
\* phase, and no invocation is in progress after it, running.json reads not
\* running.
C2_LockClearedAtEnd ==
    [][(\E p \in Procs : JobEnds(p)) /\ (\A q \in Procs : ~Running(q))'
          => ReadServiceStatus' = "false"]_vars

\* C3: while a RunBackupJob invocation does per-database work or the retention
\* sweep, running.json reads running = true.
C3_LockHeldWhileWorking ==
    \A p \in Procs : JobWorking(p) => runningFile = "true"

\* C4: a RunBackupJob invocation that reads the lock as held returns
\* {failed, already_running} in that step, and the step changes neither the
\* lock nor latest.json, the staging area or any dated directory; nothing in
\* them comes from that invocation.
C4_AlreadyRunningNoWork ==
    [][\A p \in Procs :
          (inv[p].kind = "job" /\ inv[p].pc = "j_read"
              /\ ReadServiceStatus = "true" /\ OwnStep(p))
          => /\ inv'[p].pc = "returned"
             /\ inv'[p].result = [status |-> "failed", error |-> "already_running"]
             /\ UNCHANGED <<runningFile, latestFile, tmpBase, staging, dirs, files>>
             /\ Untouched(inv[p].id)']_vars

\* C4, its case: an invocation has returned already_running while the other
\* invocation, past the lock check, holds the lock.
C4_Witness ==
    \E p, q \in Procs :
        /\ inv[p].kind = "job" /\ inv[p].pc = "returned"
        /\ inv[p].result.error = "already_running"
        /\ JobPastLock(q) /\ runningFile = "true"

\* C5: when a RunBackupJob invocation that passed the lock check ends, by a
\* return or by a panic in a target's pipeline, latest.json holds the Run
\* Summary with the run_id of that invocation.
C5_SummaryOfEveryInvocation ==
    [][\A p \in Procs :
          JobEnds(p) => /\ latestFile'.state = "ok"
                        /\ latestFile'.summary.run_id = inv[p].id]_vars

\* C6: at most one job, bulk or targeted, executes staging, dump or promotion
\* steps at a time.
C6_SingleActiveJob ==
    \A p, q \in Procs : p # q => ~(BackupSteps(p) /\ BackupSteps(q))

\* C7: a RunBackupForProject invocation that reads the lock as running returns
\* the error "backup job is already running" in that step, and the step
\* changes neither the lock nor the staging area or any dated directory;
\* nothing in them comes from that invocation.
C7_ProjectRejectedWhileRunning ==
    [][\A p \in Procs :
          (inv[p].kind = "project" /\ inv[p].pc = "p_read"
              /\ ReadServiceStatus = "true" /\ OwnStep(p))
          => /\ inv'[p].pc = "returned"
             /\ inv'[p].result = ErrorResult("backup job is already running")
             /\ UNCHANGED <<runningFile, latestFile, tmpBase, staging, dirs, files>>
             /\ Untouched(inv[p].id)']_vars

\* C7, its case: a targeted run has been rejected while a bulk run, at work
\* on a target, holds the lock.
C7_Witness ==
    \E p, q \in Procs :
        /\ inv[p].kind = "project" /\ inv[p].pc = "returned"
        /\ inv[p].result = ErrorResult("backup job is already running")
        /\ JobWorking(q) /\ runningFile = "true"

\* The status a Run Summary must carry by its counts.
StatusByCounts(s) ==
    /\ s.status \in {"success", "partial", "failed"}
    /\ s.status = "success" <=> s.failed = 0
    /\ s.status = "failed" <=> (s.succeeded = 0 /\ s.failed > 0)

\* C8 as stated: every Run Summary RunBackupJob writes has the status its
\* counts give (a count the summary does not carry reads as 0).
C8_StatusOfEverySummary ==
    /\ latestFile.state = "ok" => StatusByCounts(latestFile.summary)
    /\ \A p \in Procs : inv[p].pc = "j_sum_write" => StatusByCounts(inv[p].summary)

\* C8 amended: every Run Summary RunBackupJob writes after the per-database
\* loop (the summaries that carry counts) has the status its counts give; the
\* summaries of the two exits before the loop are failed and carry no counts.
C8_StatusOfCountedSummary ==
    /\ latestFile.state = "ok" =>
          IF latestFile.summary.counted THEN StatusByCounts(latestFile.summary)
          ELSE latestFile.summary.status = "failed"
    /\ \A p \in Procs : inv[p].pc = "j_sum_write" =>
          IF inv[p].summary.counted THEN StatusByCounts(inv[p].summary)
          ELSE inv[p].summary.status = "failed"

\* C8, its case: latest.json holds a summary of a run in which one target
\* succeeded and one failed.
C8_Witness ==
    /\ latestFile.state = "ok" /\ latestFile.summary.counted
    /\ latestFile.summary.status = "partial"
    /\ latestFile.summary.succeeded = 1 /\ latestFile.summary.failed = 1

\* The targets before the i-th of the configured list, in list order.
Prefix(i) == SubSeq(databases, 1, i)

\* C9: a RunBackupJob invocation attempts the configured targets one after
\* another in list order, each once, and once it has attempted a target and
\* is past the loop it has attempted every target.
C9_EveryTargetAttempted ==
    \A p \in Procs :
        inv[p].kind = "job" =>
            /\ \E i \in 0..Len(databases) : inv[p].attempted = Prefix(i)
            /\ (inv[p].attempted # <<>>
                  /\ inv[p].pc \in {"j_retention", "j_sum_trunc", "j_sum_write",
                                    "j_unlock_trunc", "j_unlock_write", "crashing"})
               => inv[p].attempted = databases

\* The phases of CreateBackup in their order.
Phases == <<"roles", "schema", "data", "archive", "manifest">>

\* The phase a failure point of the environment belongs to (0: none).
PhaseOf(f) ==
    CASE f = "roles"  -> 1
      [] f = "schema" -> 2
      [] f = "data"   -> 3
      [] f \in {"archive_create", "archive_write", "stat"} -> 4
      [] f = "save"   -> 5
      [] OTHER        -> 0

\* The word by which a failed manifest names a phase.
ErrorNames(msg, i) ==
    CASE i = 1 -> msg = "roles dump failed"
      [] i = 2 -> msg = "schema dump failed"
      [] i = 3 -> msg = "data dump failed"
      [] i = 4 -> msg \in {"archive creation failed", "failed to stat archive"}
      [] i = 5 -> msg = "failed to save manifest"
      [] OTHER -> FALSE

\* C10: the phases of one CreateBackup call run in the order roles, schema,
\* data, archive, manifest write, each at most once and none after a phase
\* that failed; a call whose phase failed returns a failed manifest whose
\* error names that phase.
C10_PhaseOrderAndFailure ==
    /\ \E i \in 0..Len(Phases) :
          /\ Len(pipe.log) = i
          /\ \A k \in 1..i : pipe.log[k].phase = Phases[k]
          /\ PhaseOf(penv.failAt) # 0 => i <= PhaseOf(penv.failAt)
    /\ (pipe.pc = "returned" /\ PhaseOf(penv.failAt) # 0)
          => /\ pipe.manifest.status = "failed"
             /\ ErrorNames(pipe.manifest.error, PhaseOf(penv.failAt))

\* The entries of a manifest's file list.
FileNames(m) == {m.files[i] : i \in 1..Len(m.files)}

\* C11: a manifest CreateBackup returns with status success has a non-empty
\* file list that holds the archive and an empty error; one with status
\* failed has a non-empty error and no archive in its file list.
C11_ManifestCoupling ==
    (pipe.pc = "returned" /\ pipe.err = "") =>
        /\ pipe.manifest.status \in {"success", "failed"}
        /\ pipe.manifest.status = "success" =>
              /\ pipe.manifest.files # <<>>
              /\ "archive" \in FileNames(pipe.manifest)
              /\ pipe.manifest.error = ""
        /\ pipe.manifest.status = "failed" =>
              /\ pipe.manifest.error # ""
              /\ "archive" \notin FileNames(pipe.manifest)

\* C11, its cases: a call has returned a failed manifest although the archive
\* file was written (its os.Stat failed).
C11_Witness ==
    /\ pipe.pc = "returned" /\ pipe.manifest.status = "failed"
    /\ "archive" \in pipe.out /\ penv.failAt = "stat"

\* The errors of the manifests that createFailedManifest builds for a phase.
PhaseErrors == {"roles dump failed", "schema dump failed", "data dump failed",
                "archive creation failed", "failed to stat archive"}

\* Invocation id has an archive of target db in a dated directory, or an
\* archive (whole or partial) of it in the staging area.
ArchiveLeft(id, db) ==
    \/ \E f \in files : f.run = id /\ f.db = db /\ f.kind = "archive"
    \/ \E d \in staging : d.id = id /\ d.db = db
                              /\ d.out \cap {"archive", "archive_partial"} # {}

\* C12: a target whose pipeline failed in a phase has, from the moment the
\* bulk job has recorded the failure or the targeted run has returned it, no
\* archive of that attempt in its dated directory and none, whole or partial,
\* in the staging area.
C12_NoArchiveAfterPhaseFailure ==
    \A p \in Procs :
        /\ inv[p].kind = "job" =>
              \A i \in 1..Len(inv[p].backups) :
                  inv[p].backups[i].error \in PhaseErrors
                      => ~ArchiveLeft(inv[p].id, inv[p].backups[i].db)
        /\ (inv[p].kind = "project" /\ inv[p].pc = "returned"
                /\ inv[p].result.error \in PhaseErrors)
              => \A db \in 1..MaxTargets : ~ArchiveLeft(inv[p].id, db)

\* C12, its case: a bulk job has recorded a target whose archive was written
\* and could not be read back (os.Stat failed).
C12_Witness ==
    \E p \in Procs :
        /\ inv[p].kind = "job"
        /\ \E i \in 1..Len(inv[p].backups) :
              inv[p].backups[i].error = "failed to stat archive"

\* The file of the given kind that invocation id promoted for target db on
\* day date is in the dated directory.
Promoted(id, db, date, kind) ==
    [db |-> db, date |-> date, kind |-> kind, run |-> id] \in files

\* C13: whenever a bulk job has recorded success for a target, or a targeted
\* run has returned success, the archive and the manifest of that run are
\* both in <root>/<identifier>/<date>/.
C13_SuccessMeansPromoted ==
    \A p \in Procs :
        /\ inv[p].kind = "job" =>
              \A i \in 1..Len(inv[p].backups) :
                  inv[p].backups[i].status = "success" =>
                      /\ Promoted(inv[p].id, inv[p].backups[i].db, inv[p].date, "archive")
                      /\ Promoted(inv[p].id, inv[p].backups[i].db, inv[p].date, "manifest")
        /\ (inv[p].kind = "project" /\ inv[p].pc = "returned"
                /\ inv[p].result.status = "success")
              => \E db \in 1..MaxTargets : \E date \in {today} :
                     /\ Promoted(inv[p].id, db, date, "archive")
                     /\ Promoted(inv[p].id, db, date, "manifest")

\* A RunBackupForProject invocation ends in this step: it returns, or the
\* process exits on the panic it raised in its pipeline.
ProjEnds(p) ==
    /\ inv[p].kind = "project"
    /\ \/ Running(p) /\ OwnStep(p) /\ inv'[p].pc = "returned"
       \/ inv[p].pc = "crashing" /\ inv[p].panicking /\ inv'[p].pc = "idle"

\* C14: when an invocation of RunBackupJob or RunBackupForProject ends, by a
\* return or by a panic inside a pipeline, none of the staging directories it
\* created exists any more.
C14_StagingRemovedAtEnd ==
    [][\A p \in Procs :
          (JobEnds(p) \/ ProjEnds(p)) => \A d \in staging' : d.id # inv[p].id]_vars

\* C15: in every state, also between the steps of a promotion, a dated
\* directory holds a run's archive if and only if it holds that run's
\* manifest.
C15_ArchiveAndManifestTogether ==
    \A f \in files :
        /\ f.kind = "archive" => Promoted(f.run, f.db, f.date, "manifest")
        /\ f.kind = "manifest" => Promoted(f.run, f.db, f.date, "archive")

\* C16: no state shows running.json or latest.json partially written; a read
\* returns the whole previous record (or its absence) or the whole new one.
C16_NoPartialRecord ==
    /\ ReadServiceStatus # "err"
    /\ ReadLastRun.state # "partial"

\* C17: after WriteLastRun(A) followed by WriteLastRun(B) has returned,
\* ReadLastRun returns exactly B, with nothing of A left in it.
C17_LastWriteWins ==
    (store.pc = "idle" /\ store.written # <<>>)
        => ReadLastRun = [state |-> "ok",
                          summary |-> store.written[Len(store.written)]]

\* C17, its case: a summary with counts and no error has been written after
\* a summary with an error and no counts.
C17_Witness ==
    /\ store.pc = "idle" /\ Len(store.written) >= 2
    /\ store.written[Len(store.written) - 1].error # ""
    /\ ~store.written[Len(store.written) - 1].counted
    /\ store.written[Len(store.written)].error = ""
    /\ store.written[Len(store.written)].counted
    /\ ReadLastRun.state = "ok" /\ ReadLastRun.summary.error = ""

\* The orders in which the members of S can be visited.
Orders(S) ==
    {f \in [1..Cardinality(S) -> S] :
        \A i, j \in 1..Cardinality(S) : i # j => f[i] # f[j]}

\* The directories of ds before the cutoff of the day and the retention.
Expired(ds, now, retention) == {d \in ds : d < now - retention}

\* C18: a sweep of one target in which no removal fails removes exactly the
\* dated directories before the cutoff (today minus the retention), leaves
\* the others and every other target alone and returns the number removed;
\* any visiting order removes the same set, and a repeated sweep removes
\* nothing more.
C18_SweepRemovesExpired ==
    (sweep.kind = "one" /\ ~sweep.err) =>
        LET db  == sweep.db
            B   == sweep.before[db]
            old == Expired(B, today, retentionDays)
        IN  /\ dirs[db] = B \ old
            /\ sweep.removed[db] = old
            /\ sweep.deleted = Cardinality(old)
            /\ \A o \in 1..MaxTargets : o # db => dirs[o] = sweep.before[o]
            /\ \A f \in Orders(B) :
                  SweepEntries(f, today - retentionDays, {},
                               [deleted |-> 0, removed |-> {}, err |-> FALSE]).removed = old
            /\ CleanupOldBackups(dirs[db], today, retentionDays, {}).deleted = 0

\* C18, its case: with a retention of 1 day, a sweep on day N+2 of a target
\* that held the directories of day N and day N+2 has left that of day N+2.
C18_Witness ==
    /\ sweep.kind = "one" /\ ~sweep.err /\ retentionDays = 1 /\ today >= 2
    /\ sweep.before[sweep.db] = {today - 2, today}
    /\ dirs[sweep.db] = {today}

\* C19: a call of CleanupAllDatabases sweeps every configured target exactly
\* once, in the configured order, also when the sweep of an earlier target
\* returned an error, and its result holds the count of every target from
\* which directories were removed.
C19_EveryTargetSweptOnce ==
    (sweep.kind = "all") =>
        /\ sweep.swept = databases
        /\ sweep.counts =
              {<<databases[i], Cardinality(sweep.removed[databases[i]])>> :
                   i \in {j \in 1..Len(databases) :
                              sweep.removed[databases[j]] # {}}}

\* The directory at which a sweep of ds stops: the earliest directory before
\* the cutoff whose removal fails.
FailsAt(ds, now, retention, bad) ==
    CHOOSE b \in Expired(ds, now, retention) \cap bad :
        \A d \in Expired(ds, now, retention) \cap bad : b <= d

\* C20: a sweep of one target in which a removal failed has stopped at that
\* directory: it returns the error with the number of directories removed
\* before it, those directories are gone, and the failing directory and
\* every directory after it are still in place.
C20_SweepStopsAtFailure ==
    (sweep.kind = "one" /\ sweep.err) =>
        LET db   == sweep.db
            B    == sweep.before[db]
            b    == FailsAt(B, today, retentionDays, sweep.bad)
            gone == {d \in Expired(B, today, retentionDays) : d < b}
        IN  /\ Expired(B, today, retentionDays) \cap sweep.bad # {}
            /\ sweep.removed[db] = gone
            /\ sweep.deleted = Cardinality(gone)
            /\ dirs[db] = B \ gone
            /\ \A o \in 1..MaxTargets : o # db => dirs[o] = sweep.before[o]

\* C20, its case: a sweep returned an error after it had removed a directory,
\* and an expired directory after the failing one is still in place.
C20_Witness ==
    /\ sweep.kind = "one" /\ sweep.err /\ sweep.deleted >= 1
    /\ \E d \in Expired(dirs[sweep.db], today, retentionDays) :
          d \notin sweep.bad

\* C21: a sweep of a database whose backup tree does not exist returns zero
\* removed and no error, and changes nothing on disk.
C21_MissingTreeIsNoError ==
    [][(sweep'.kind = "one" /\ sweep'.db \notin trees) =>
          /\ sweep'.deleted = 0 /\ ~sweep'.err
          /\ UNCHANGED <<trees, dirs, strays, files, runningFile, latestFile,
                         tmpBase, staging>>]_vars

\* C21, its case: the sweep of a target without a backup tree has returned,
\* while another target has a directory before the cutoff.
C21_Witness ==
    /\ sweep.kind = "one" /\ sweep.db \notin trees
    /\ sweep.deleted = 0 /\ ~sweep.err
    /\ \E o \in trees : Expired(dirs[o], today, retentionDays) # {}

\* C22: a sweep of one database removes whole dated directories of that
\* database only: the entry of its tree that is no directory stays, every
\* file in a directory it retains stays as it was, and nothing changes in the
\* other databases' trees, in metadata/ or in the staging root.
C22_WholeDirectoriesOnly ==
    [][(sweep'.kind = "one") =>
          LET db == sweep'.db
          IN  /\ strays' = strays /\ trees' = trees
              /\ dirs'[db] \subseteq dirs[db]
              /\ \A o \in 1..MaxTargets : o # db => dirs'[o] = dirs[o]
              /\ files' = {f \in files : f.db # db \/ f.date \in dirs'[db]}
              /\ UNCHANGED <<runningFile, latestFile, tmpBase, staging>>]_vars

\* C22, its case: a sweep has removed a directory of a tree that holds an
\* entry that is no directory and a directory that is retained, with its
\* files, while another database has a directory before the cutoff.
C22_Witness ==
    /\ sweep.kind = "one" /\ sweep.deleted >= 1 /\ sweep.db \in strays
    /\ \E f \in files : f.db = sweep.db /\ f.date \in dirs[sweep.db]
    /\ \E o \in trees : o # sweep.db /\ Expired(dirs[o], today, retentionDays) # {}

\* C23: in a service without configured targets, the WriteLastRun of a
\* RunBackupJob invocation puts into latest.json the Run Summary of that run
\* with status failed, the error "No databases configured", an empty backups
\* list and no counts; no invocation reaches a staging, dump or promotion
\* step or the retention sweep; and when an invocation has returned and none
\* is in progress, running.json reads not running.
C23_NoTargetsSummary ==
    [][Len(databases) = 0 =>
          \A p \in Procs :
              /\ (inv[p].kind = "job" /\ inv[p].pc = "j_sum_write" /\ OwnStep(p))
                    => /\ ReadLastRun'.state = "ok"
                       /\ ReadLastRun'.summary =
                             [NoSummary EXCEPT !.run_id = inv[p].id,
                                               !.status = "failed",
                                               !.error = "No databases configured"]
              /\ ~JobWorking(p)' /\ ~ProjectWorking(p)'
              /\ inv'[p].attempted = <<>>
              /\ UNCHANGED <<tmpBase, staging, trees, dirs, files>>
              /\ (JobEnds(p) /\ \A q \in Procs : ~Running(q)')
                    => ReadServiceStatus' = "false"]_vars

\* C23, its case: in a service without configured targets a RunBackupJob
\* invocation has returned its failed summary, latest.json holds it and
\* running.json reads not running.
C23_Witness ==
    /\ Len(databases) = 0
    /\ \E p \in Procs :
          /\ inv[p].kind = "job" /\ inv[p].pc = "returned"
          /\ inv[p].result = [status |-> "failed", error |-> "No databases configured"]
          /\ ReadLastRun.state = "ok" /\ ReadLastRun.summary.run_id = inv[p].id
    /\ \A q \in Procs : ~Running(q)
    /\ runningFile = "false"

\* C24: while latest.json has never been written (the file does not exist),
\* ReadLastRun returns absent without an error and GET /status answers
\* no_runs_yet; while running.json has never been written, ReadServiceStatus
\* returns not running without an error.
C24_AbsentReadsAsNone ==
    /\ latestFile.state = "absent" =>
          /\ ReadLastRun = LatestAbsent
          /\ HandleStatus.code = 200 /\ HandleStatus.status = "no_runs_yet"
    /\ runningFile = "absent" => ReadServiceStatus = "false"

\* C25: when a RunOnceWithConfig call that created a container has returned,
\* the container has been removed, whatever the exit path.
C25_ContainerRemovedOnReturn ==
    (docker.pc = "returned" /\ docker.container # "none")
        => docker.container = "removed"

\* A non-zero exit code has been read from ContainerWait in this call.
ExitedNonZero == docker.container # "none" /\ docker.exitCode # 0

\* The error that a non-zero exit code calls for: the code with stderr, or
\* with stdout when stderr is empty, or alone when both are empty.
EmbedsOutput(e) ==
    /\ e.kind = "exit" /\ e.code = docker.exitCode
    /\ e.text = (IF docker.env.err # "" THEN docker.env.err ELSE docker.env.out)

\* C26 as stated: a call whose command exited with a non-zero code returns
\* the error that embeds stderr, or stdout when stderr is empty, or only the
\* exit code; a call whose command exited with 0 and whose logs were
\* captured returns no error.
C26_NonZeroExitEmbedsOutput ==
    docker.pc = "returned" =>
        /\ ExitedNonZero => EmbedsOutput(docker.error)
        /\ (docker.container # "none" /\ docker.exitCode = 0
               /\ docker.error.kind \notin {"start", "wait", "logs", "copy"})
              => docker.error = NoError

\* C26 amended: a call whose command exited with a non-zero code never
\* returns success, and when its logs were captured it returns the error that
\* embeds stderr, or stdout when stderr is empty, or only the exit code (when
\* the logs could not be read or copied, the error is that of the log read
\* and carries neither the exit code nor the output); a call whose command
\* exited with 0 and whose logs were captured returns no error.
C26_NonZeroExitIsError ==
    docker.pc = "returned" =>
        /\ ExitedNonZero =>
              /\ docker.error # NoError
              /\ docker.error.kind \notin {"logs", "copy"} => EmbedsOutput(docker.error)
              /\ docker.error.kind \in {"logs", "copy", "exit"}
        /\ (docker.container # "none" /\ docker.exitCode = 0
               /\ docker.error.kind \notin {"start", "wait", "logs", "copy"})
              => docker.error = NoError

\* C26, its case: a command that wrote to stdout and to stderr has exited
\* with a non-zero code, and the call has returned the error with stderr.
C26_Witness ==
    /\ docker.pc = "returned" /\ ExitedNonZero
    /\ docker.env.out # "" /\ docker.env.err # ""
    /\ docker.error.kind = "exit" /\ docker.error.text = docker.env.err

\* The dump phases of CreateBackup that have run so far used version v.
DumpsUsed(v) ==
    \A k \in 1..Len(pipe.log) :
        pipe.log[k].phase \in {"roles", "schema", "data"} => pipe.log[k].version = v

\* C27: a CreateBackup call whose version detection failed goes on with
\* major version 17: every dump phase it runs uses 17, the call returns an
\* error or a failed manifest only for a step that failed after the
\* detection, and with nothing else failing it returns the success manifest
\* after all five phases.
C27_DetectionFailureFallsBack ==
    penv.detect = 0 =>
        /\ pipe.pc # "detect" => pipe.pgVersion = DefaultPGVersion
        /\ DumpsUsed(DefaultPGVersion)
        /\ (pipe.pc = "returned" /\ pipe.err # "") => penv.failAt = "mkdir"
        /\ (pipe.pc = "returned" /\ pipe.manifest.status = "failed")
              => PhaseOf(penv.failAt) \in 1..4
        /\ (PipeDone(pipe) /\ penv.failAt = "none" /\ penv.metrics)
              => /\ pipe.pc = "returned" /\ pipe.err = ""
                 /\ pipe.manifest.status = "success"
                 /\ Len(pipe.log) = Len(Phases)

\* C27, its case: a call whose version detection failed has returned the
\* success manifest after three dumps with version 17.
C27_Witness ==
    /\ penv.detect = 0 /\ pipe.pc = "returned"
    /\ pipe.manifest.status = "success"
    /\ Len(pipe.log) = Len(Phases) /\ pipe.log[3].version = DefaultPGVersion

\* C28: a CreateBackup call whose metrics collection failed never panics and
\* runs its phases like any other call; when no phase fails it returns
\* normally the success manifest, without the version and size fields.
C28_MetricsFailureSwallowed ==
    ~penv.metrics =>
        /\ pipe.pc # "panic"
        /\ (PipeDone(pipe) /\ penv.failAt = "none")
              => /\ pipe.pc = "returned" /\ pipe.err = ""
                 /\ pipe.manifest.status = "success"
                 /\ ~pipe.manifest.hasMetrics

\* The result entries of Run Summary s hold a failed entry for target t.
FailedResultFor(s, t) ==
    \E i \in 1..Len(s.backups) :
        s.backups[i].db = t /\ s.backups[i].status = "failed"

\* C29: every Run Summary with per-database results that a job writes holds
\* a failed result for every configured target whose connection descriptor
\* is malformed.
C29_MalformedTargetSurfaced ==
    \A t \in 1..Len(config) :
        config[t] = "malformed" =>
            /\ (latestFile.state = "ok" /\ latestFile.summary.counted)
                  => FailedResultFor(latestFile.summary, t)
            /\ \A p \in Procs :
                  (inv[p].pc = "j_sum_write" /\ inv[p].summary.counted)
                      => FailedResultFor(inv[p].summary, t)

\* Run Summary s holds exactly one result entry for each target of the
\* service, and as many failed entries with an error as it counts failures.
OneEntryPerTarget(s) ==
    /\ Len(s.backups) = Len(databases)
    /\ \A i \in 1..Len(s.backups) : s.backups[i].db = databases[i]
    /\ Cardinality({i \in 1..Len(s.backups) :
                        s.backups[i].status = "failed" /\ s.backups[i].error # ""})
          = s.failed

\* C30: every Run Summary a job writes after it attempted the targets holds
\* exactly one result entry for each target, and a failed entry with a
\* non-empty error for every target it counts as failed.
C30_ResultEntryForEveryTarget ==
    /\ (latestFile.state = "ok" /\ latestFile.summary.counted)
          => OneEntryPerTarget(latestFile.summary)
    /\ \A p \in Procs :
          (inv[p].pc = "j_sum_write" /\ inv[p].summary.counted)
              => OneEntryPerTarget(inv[p].summary)

\* The place of a statement of RunBackupJob among its externally visible
\* writes: the lock check, setting the lock, the staging root, the targets,
\* the sweep, latest.json, the deferred unlock, the end.
JobStage(pc) ==
    CASE pc = "j_read" -> 0
      [] pc \in {"j_lock_trunc", "j_lock_write"} -> 1
      [] pc = "j_begin" -> 2
      [] pc \in {"j_mktemp", "j_backup", "j_mkfinal", "j_mv_archive",
                 "j_mv_manifest", "j_record"} -> 3
      [] pc = "j_retention" -> 4
      [] pc = "j_sum_trunc" -> 5
      [] pc = "j_sum_write" -> 6
      [] pc \in {"j_unlock_trunc", "j_unlock_write"} -> 7
      [] OTHER -> 8

\* A step of goroutine p's RunBackupJob keeps the order of the writes: the
\* invocation never goes back to an earlier stage, running.json changes only
\* in the two lock writes, the staging area only while a target is processed,
\* dated directories only while a target is processed or in the sweep, and
\* latest.json only in the one WriteLastRun call, which is left for good.
WriteOrder(p) ==
    (inv[p].kind = "job" /\ OwnStep(p)) =>
        /\ JobStage(inv'[p].pc) >= JobStage(inv[p].pc)
        /\ runningFile' # runningFile => JobStage(inv[p].pc) \in {1, 7}
        /\ staging' # staging => JobStage(inv[p].pc) = 3
        /\ <<trees, dirs, files>>' # <<trees, dirs, files>>
              => JobStage(inv[p].pc) \in {3, 4}
        /\ latestFile' # latestFile => JobStage(inv[p].pc) \in {5, 6}
        /\ JobStage(inv[p].pc) \in {5, 6}
              => JobStage(inv'[p].pc) > JobStage(inv[p].pc)

\* C31: a RunBackupJob invocation past the lock check writes in the order
\* lock, targets, sweep, one write of latest.json, unlock, and when its unlock
\* makes running.json read not running, latest.json holds its Run Summary.
C31_OrderedWritesThenSummary ==
    [][\A p \in Procs :
          /\ WriteOrder(p)
          /\ (inv[p].kind = "job" /\ inv[p].pc = "j_unlock_write" /\ OwnStep(p)
                 /\ ReadServiceStatus' = "false")
             => /\ latestFile'.state = "ok"
                /\ latestFile'.summary.run_id = inv[p].id]_vars

\* C32: once the shutdown has been requested (the signal has arrived), every
\* running job eventually ends.
C32_ShutdownEndsRunningJob ==
    (life.main # "waiting") ~> (\A p \in Procs : ~Running(p))

\* Invocation id, a targeted backup of db on goroutine p, is back from
\* CreateBackup with every dump phase done: the manifest reports success, or
\* the call panicked building it.
DumpsSucceeded(p, id, db) ==
    /\ inv[p].kind = "project" /\ inv[p].id = id /\ inv[p].db = db
    /\ inv[p].pc \in {"p_mkfinal", "p_cleanup"}
    /\ (inv[p].panicking \/ inv[p].m.status = "success")

\* C33: once a targeted backup of a configured project is back from
\* CreateBackup with every dump phase done, eventually one dated directory of
\* the project holds the archive and the manifest of that invocation (unless
\* a step of the promotion failed and the invocation returned that error).
C33_ProjectBackupLands ==
    \A p \in Procs, id \in 1..MaxStarts, db \in 1..MaxTargets :
        DumpsSucceeded(p, id, db)
            ~> \/ \E date \in 0..MaxDay : /\ Promoted(id, db, date, "archive")
                                           /\ Promoted(id, db, date, "manifest")
               \/ /\ inv[p].id = id /\ inv[p].pc = "returned"
                  /\ inv[p].result.status = "error"

\* Some RunBackupJob invocation is in progress past its lock check.
JobInProgress == \E q \in Procs : JobPastLock(q)

\* C34: RunBackupJob returns already_running, and RunBackupForProject returns
\* "backup job is already running", only while some RunBackupJob invocation is
\* in progress, also after the process was killed during a run and restarted.
C34_RejectedOnlyWhileRunning ==
    [][\A p \in Procs :
          (OwnStep(p) /\ inv[p].pc \in {"j_read", "p_read"}
              /\ inv'[p].pc = "returned"
              /\ inv'[p].result.error \in {"already_running",
                                           "backup job is already running"})
          => JobInProgress]_vars

\* C35: when reading the lock state fails, RunBackupJob and
\* RunBackupForProject do not end abnormally: the step after the read goes on
\* with the invocation or returns a result or an error to the caller.
C35_UnreadableLockIsSurvived ==
    [][\A p \in Procs :
          (OwnStep(p) /\ inv[p].pc \in {"j_read", "p_read"}
              /\ ReadServiceStatus = "err")
          => inv'[p].pc # "crashing"]_vars

\* C36: the retention sweep at the end of a RunBackupJob invocation removes no
\* dated directory that holds a file this invocation promoted, whatever
\* RETENTION_DAYS >= 0 is and whether or not midnight passed during the job.
C36_SweepKeepsOwnBackup ==
    [][\A p \in Procs :
          (inv[p].kind = "job" /\ inv[p].pc = "j_retention" /\ OwnStep(p)
              /\ retentionDays >= 0)
          => \A f \in files : f.run = inv[p].id
                => f.date \in dirs'[f.db] /\ f \in files']_vars

\* The counters of Run Summary s add up to its total, which is the number of
\* targets the service runs with (Service.databases, what GET /status reports
\* as databases_configured).
CountsAddUp(s) ==
    s.counted => /\ s.succeeded + s.failed = s.total
                 /\ s.total = Len(databases)

\* C37: in every Run Summary built after the per-target loop, in latest.json
\* or on its way there, databases_succeeded + databases_failed =
\* databases_total = the number of configured targets.
C37_CountsAddUp ==
    /\ latestFile.state = "ok" => CountsAddUp(latestFile.summary)
    /\ \A p \in Procs : CountsAddUp(inv[p].summary)

\* C37, its case: latest.json holds the summary of a run over two targets of
\* which one succeeded and one failed.
C37_Witness ==
    /\ latestFile.state = "ok" /\ latestFile.summary.counted
    /\ latestFile.summary.total = 2
    /\ latestFile.summary.succeeded = 1 /\ latestFile.summary.failed = 1

C39_AcceptedRunIsNotRejected ==
    [][/\ (life'.answer # life.answer /\ GetRunning = "true")
             => life'.answer = "409" /\ UNCHANGED <<inv, nextId>>
       /\ \A p \in Procs :
             (inv[p].id \in life.accepted /\ OwnStep(p))
             => inv'[p].result.error # "already_running"]_vars

\* C40: when Service.Shutdown returns nil, no invocation is running and
\* running.json reads not running; when its context is done while a job of
\* the scheduler still runs, it returns the context's error.
C40_ShutdownNilMeansQuiet ==
    [][(life.main = "svc_wait" /\ life'.main = "returning")
          => /\ life'.shutdown = "nil"
                   => /\ \A p \in Procs : ~Running(p)
                      /\ ReadServiceStatus = "false"
             /\ (life.ctxDone /\ CronJobsRunning # {})
                   => life'.shutdown = "ctx"]_vars
====
